---- MODULE Spec2Model ----
(***************************************************************************)
(* Model of the academic data store of pim_python (app/repositories.py):   *)
(* the in-memory tables alunos / turmas / atividades, the assignment id    *)
(* counter _next_atv_id and the JSON mirror data/db.json, together with    *)
(* the route POST /atividades/ that calls the store (routers/atividades).  *)
(* Further sections model the read-only queries and reports, the routes    *)
(* that call the store, the sessions of app/auth.py with the routes behind *)
(* require_professor, add_atividade run by concurrent requests, and _save  *)
(* when the write fails.                                                   *)
(*                                                                         *)
(* Grades are Python floats.  A float is modelled as [t |-> "float",       *)
(* v |-> n] with n the value in hundredths (F(750) is 7.5); float("nan")   *)
(* is NaN, Python's None is None, and Txt is a string float() cannot parse.*)
(* Objects handed to the store are fresh (as the routes build them).       *)
(***************************************************************************)
EXTENDS Integers, Sequences, FiniteSets, TLC

VARIABLES alunos, turmas, atividades, _next_atv_id, disk, call, ret,
          SESSIONS, now, issued, bearer, threads

mem  == <<alunos, turmas, atividades, _next_atv_id>>
\* app/auth.py: the session table, the clock (hours), the number of tokens
\* issued so far, and the Authorization header the client sends
auth == <<SESSIONS, now, issued, bearer>>
\* what a store method and a handler body leave alone: the sessions and the
\* position of the requests running in other threads
outside == <<auth, threads>>
vars == <<alunos, turmas, atividades, _next_atv_id, disk, call, ret,
          SESSIONS, now, issued, bearer, threads>>

(* ------------------------------ bounds --------------------------------- *)
\* largest number of records (students, classes, members, assignments,
\* submission fields, student grades) the explored stores hold
MaxSize == 4
\* largest number of assignments in an explored store
MaxAtividades == 2
\* largest assignment id that occurs in a snapshot file (for int(key))
MaxId == 8

(* ------------------------------ values --------------------------------- *)
None == [t |-> "None", v |-> 0]
NaN  == [t |-> "nan", v |-> 0]
Txt  == [t |-> "str", v |-> 0]
F(n) == [t |-> "float", v |-> n]

RAs     == {"A", "B"}
Codigos == {"T1", "T2"}
Nomes   == {"n1", "n2"}
Curso   == "ADS"
Titulo  == "Atv"
DataEntrega == "2025-11-30"
Arquivos == {"f1", "f2"}
\* values offered as a grade argument
GradeInputs == {None, Txt, NaN, F(-100), F(0), F(1000), F(1050)}
\* (np1, np2, pim) arguments offered to set_notas
NotasInputs ==
  {<<None, None, None>>, <<F(0), None, None>>, <<F(1000), None, None>>,
   <<NaN, None, None>>, <<None, F(700), None>>, <<None, None, F(1000)>>,
   <<F(1000), F(700), F(1000)>>,
   <<F(1050), None, None>>, <<Txt, None, None>>, <<None, Txt, None>>,
   <<F(0), F(1050), None>>, <<F(0), F(700), F(-100)>>}

(* error messages raised by the store *)
ErrRaCadastrado    == "RA ja cadastrado."
ErrTurmaCadastrada == "Turma ja cadastrada."
ErrTurmaNaoEnc     == "Turma nao encontrada."
ErrAlunoRaNaoEnc   == "Aluno (RA) nao encontrado."
ErrAtividadeNaoEnc == "Atividade nao encontrada."
ErrInformeNota     == "Informe uma nota."
ErrNotaInvalida    == "Nota invalida."
ErrNotaFaixa       == "Nota deve estar entre 0 e 10."
ErrAlunoNaoEnc     == "Aluno nao encontrado."
ErrInvalida(nome)  == nome \o " invalida."
ErrFaixa(nome)     == nome \o " deve estar entre 0 e 10."

\* outcome of a call: the value returned, or the message of the ValueError
\* raised; status is the HTTP status when the call is a route, else 0
Ok(val)     == [err |-> "", status |-> 0, val |-> val]
Raise(msg)  == [err |-> msg, status |-> 0, val |-> None]
Http(st, msg, val) == [err |-> msg, status |-> st, val |-> val]

(* ---------------------------- Python helpers --------------------------- *)
\* dict.get(key, default)
Get(d, k, default) == IF k \in DOMAIN d THEN d[k] ELSE default
\* d[k] = v on a dict
Put(d, k, v) == [x \in DOMAIN d \cup {k} |-> IF x = k THEN v ELSE d[x]]
\* n < m on floats: every comparison with nan is False
FLt(a, b) == a.t = "float" /\ b.t = "float" /\ a.v < b.v
\* float(v) raises for a string that is not a number
FloatRaises(v) == v.t = "str"
\* n < 0 or n > 10
OutOfRange(n) == FLt(n, F(0)) \/ FLt(F(1000), n)
\* int(i) of a JSON object key
int(k) == CHOOSE i \in 0..MaxId : ToString(i) = k

(* models.py *)
Aluno_zero(nome, ra, curso) ==
  [nome |-> nome, ra |-> ra, curso |-> curso, np1 |-> F(0), np2 |-> None, pim |-> None]
Aluno(nome, ra, curso) ==
  [nome |-> nome, ra |-> ra, curso |-> curso, np1 |-> None, np2 |-> None, pim |-> None]
Turma(codigo, nome) == [codigo |-> codigo, nome |-> nome, alunos |-> << >>]
Atividade(id, turma_codigo) ==
  [id |-> id, turma_codigo |-> turma_codigo, titulo |-> Titulo,
   data_entrega |-> DataEntrega, entregas |-> << >>]

\* pydantic construction from a JSON object: absent optional fields default
AlunoFrom(a) ==
  [nome |-> a.nome, ra |-> a.ra, curso |-> a.curso,
   np1 |-> Get(a, "np1", None), np2 |-> Get(a, "np2", None), pim |-> Get(a, "pim", None)]
TurmaFrom(t) == [codigo |-> t.codigo, nome |-> t.nome, alunos |-> Get(t, "alunos", << >>)]
AtividadeFrom(a) ==
  [id |-> a.id, turma_codigo |-> a.turma_codigo, titulo |-> a.titulo,
   data_entrega |-> a.data_entrega, entregas |-> Get(a, "entregas", << >>)]

(* ----------------------------- serialization --------------------------- *)
NoFile == [exists |-> FALSE, raw |-> << >>]

\* the document _save writes: json.dump turns the int keys of atividades
\* into strings
_save(al, tu, at, nid) ==
  [exists |-> TRUE,
   raw |-> [alunos |-> al,
            turmas |-> tu,
            atividades |-> [k \in {ToString(i) : i \in DOMAIN at} |->
                              at[CHOOSE i \in DOMAIN at : ToString(i) = k]],
            next_id |-> nid]]

\* int(raw.get("next_id", 1))
next_id_reset(raw) == 1
next_id_of(raw) == Get(raw, "next_id", 1)

\* the store _load builds from the file d, given the freshly constructed
\* fields (empty tables, counter 1)
_load(d) ==
  IF ~d.exists
    THEN [alunos |-> << >>, turmas |-> << >>, atividades |-> << >>, next_id |-> 1]
    ELSE LET ra == Get(d.raw, "alunos", << >>)
             rt == Get(d.raw, "turmas", << >>)
             rv == Get(d.raw, "atividades", << >>)
         IN [alunos |-> [r \in DOMAIN ra |-> AlunoFrom(ra[r])],
             turmas |-> [c \in DOMAIN rt |-> TurmaFrom(rt[c])],
             atividades |-> [i \in {int(k) : k \in DOMAIN rv} |->
                               AtividadeFrom(rv[CHOOSE k \in DOMAIN rv : int(k) = i])],
             next_id |-> next_id_of(d.raw)]

(* ------------------------------- size ---------------------------------- *)
RECURSIVE SumOver(_, _)
SumOver(f, S) ==
  IF S = {} THEN 0
  ELSE LET x == CHOOSE y \in S : TRUE IN f[x] + SumOver(f, S \ {x})

GradeCount(a) ==
  (IF a.np1 = None THEN 0 ELSE 1) + (IF a.np2 = None THEN 0 ELSE 1)
  + (IF a.pim = None THEN 0 ELSE 1)
EntregaCount(atv) ==
  SumOver([r \in DOMAIN atv.entregas |-> Cardinality(DOMAIN atv.entregas[r])],
          DOMAIN atv.entregas)
Size(al, tu, at) ==
  SumOver([r \in DOMAIN al |-> 1 + GradeCount(al[r])], DOMAIN al)
  + SumOver([c \in DOMAIN tu |-> 1 + Len(tu[c].alunos)], DOMAIN tu)
  + SumOver([i \in DOMAIN at |-> 1 + EntregaCount(at[i])], DOMAIN at)
\* the call keeps the store within the explored sizes (a call that adds no
\* record always does)
Fits == /\ \/ Size(alunos', turmas', atividades') <= MaxSize
           \/ Size(alunos', turmas', atividades') <= Size(alunos, turmas, atividades)
        /\ \/ Cardinality(DOMAIN atividades') <= MaxAtividades
           \/ DOMAIN atividades' = DOMAIN atividades

\* no call is in progress: the caller has taken the outcome of the last one
Idle == [op |-> "idle"]

\* auth.py at import: SESSIONS = {}; no request has a header yet, and no
\* request is running in a worker thread
NoHeader == [parts |-> 0, scheme |-> "", token |-> 0]
NoThreads == << >>
Fresh ==
  /\ SESSIONS = << >>
  /\ now = 0
  /\ issued = 0
  /\ bearer = NoHeader
  /\ threads = NoThreads

(* ------------------------------- Init ---------------------------------- *)
\* DataStore.__init__ with no data/db.json
Init ==
  /\ alunos = << >>
  /\ turmas = << >>
  /\ atividades = << >>
  /\ _next_atv_id = 1
  /\ disk = NoFile
  /\ call = Idle
  /\ ret = Ok(None)
  /\ Fresh

\* self._save() at the end of a mutating method
PersistStale == UNCHANGED disk
Persist == disk' = _save(alunos', turmas', atividades', _next_atv_id')
Fail(msg) == ret' = Raise(msg) /\ UNCHANGED <<mem, disk>>

(* ------------------------------ alunos --------------------------------- *)
add_aluno_overwrite(ra, nome) ==
  /\ call = Idle
  /\ UNCHANGED outside
  /\ call' = [op |-> "add_aluno", ra |-> ra, nome |-> nome]
  /\ alunos' = Put(alunos, ra, Aluno(nome, ra, Curso))
  /\ UNCHANGED <<turmas, atividades, _next_atv_id>>
  /\ Persist
  /\ Fits
  /\ ret' = Ok(alunos'[ra])
add_aluno(ra, nome) ==
  /\ call = Idle
  /\ UNCHANGED outside
  /\ call' = [op |-> "add_aluno", ra |-> ra, nome |-> nome]
  /\ IF ra \in DOMAIN alunos
       THEN Fail(ErrRaCadastrado)
       ELSE /\ alunos' = Put(alunos, ra, Aluno(nome, ra, Curso))
            /\ UNCHANGED <<turmas, atividades, _next_atv_id>>
            /\ Persist
            /\ Fits
            /\ ret' = Ok(alunos'[ra])

\* get_aluno(ra): the student, or None
get_aluno(ra) == Get(alunos, ra, None)

(* ------------------------------ turmas --------------------------------- *)
add_turma_overwrite(codigo, nome) ==
  /\ call = Idle
  /\ UNCHANGED outside
  /\ call' = [op |-> "add_turma", codigo |-> codigo, nome |-> nome]
  /\ turmas' = Put(turmas, codigo, Turma(codigo, nome))
  /\ UNCHANGED <<alunos, atividades, _next_atv_id>>
  /\ Persist
  /\ Fits
  /\ ret' = Ok(turmas'[codigo])
add_turma(codigo, nome) ==
  /\ call = Idle
  /\ UNCHANGED outside
  /\ call' = [op |-> "add_turma", codigo |-> codigo, nome |-> nome]
  /\ IF codigo \in DOMAIN turmas
       THEN Fail(ErrTurmaCadastrada)
       ELSE /\ turmas' = Put(turmas, codigo, Turma(codigo, nome))
            /\ UNCHANGED <<alunos, atividades, _next_atv_id>>
            /\ Persist
            /\ Fits
            /\ ret' = Ok(turmas'[codigo])

get_turma(codigo) == Get(turmas, codigo, None)

\* ra in turma.alunos
InList_never(ra, lst) == FALSE
InList(ra, lst) == \E i \in 1..Len(lst) : lst[i] = ra

add_aluno_to_turma(codigo, ra) ==
  /\ call = Idle
  /\ UNCHANGED outside
  /\ call' = [op |-> "add_aluno_to_turma", codigo |-> codigo, ra |-> ra]
  /\ IF codigo \notin DOMAIN turmas
       THEN Fail(ErrTurmaNaoEnc)
       ELSE IF ra \notin DOMAIN alunos
       THEN Fail(ErrAlunoRaNaoEnc)
       ELSE /\ turmas' = IF ~InList(ra, turmas[codigo].alunos)
                           THEN [turmas EXCEPT ![codigo].alunos = Append(@, ra)]
                           ELSE turmas
            /\ UNCHANGED <<alunos, atividades, _next_atv_id>>
            /\ Persist
            /\ Fits
            /\ ret' = Ok(turmas'[codigo])

(* ------------------------- atividades + entregas ----------------------- *)
\* the body of add_atividade: atv.id = counter; counter += 1; store; save
add_atividade_body_noinc(atv) ==
  /\ atividades' = Put(atividades, _next_atv_id, [atv EXCEPT !.id = _next_atv_id])
  /\ _next_atv_id' = _next_atv_id
  /\ UNCHANGED <<alunos, turmas>>
  /\ Persist
  /\ Fits
add_atividade_body(atv) ==
  /\ atividades' = Put(atividades, _next_atv_id, [atv EXCEPT !.id = _next_atv_id])
  /\ _next_atv_id' = _next_atv_id + 1
  /\ UNCHANGED <<alunos, turmas>>
  /\ Persist
  /\ Fits

add_atividade(turma_codigo) ==
  /\ call = Idle
  /\ UNCHANGED outside
  /\ call' = [op |-> "add_atividade", turma_codigo |-> turma_codigo]
  /\ add_atividade_body(Atividade(0, turma_codigo))
  /\ ret' = Ok(atividades'[_next_atv_id])

get_atividade(atv_id) == Get(atividades, atv_id, None)

\* payload = atv.entregas.get(ra, {}); the entries are always dicts
payload_fresh(atv, ra) == << >>
payload_of(atv, ra) == Get(atv.entregas, ra, << >>)

add_entrega_nocheck(atv_id, ra, arquivo) ==
  /\ call = Idle
  /\ UNCHANGED outside
  /\ call' = [op |-> "add_entrega", atv_id |-> atv_id, ra |-> ra, arquivo |-> arquivo]
  /\ IF atv_id \notin DOMAIN atividades
       THEN Fail(ErrAtividadeNaoEnc)
       ELSE LET payload == payload_of(atividades[atv_id], ra)
            IN /\ atividades' = [atividades EXCEPT ![atv_id].entregas =
                                   Put(@, ra, Put(payload, "arquivo", arquivo))]
               /\ UNCHANGED <<alunos, turmas, _next_atv_id>>
               /\ Persist
               /\ Fits
               /\ ret' = Ok(atividades'[atv_id])

add_entrega(atv_id, ra, arquivo) ==
  /\ call = Idle
  /\ UNCHANGED outside
  /\ call' = [op |-> "add_entrega", atv_id |-> atv_id, ra |-> ra, arquivo |-> arquivo]
  /\ IF atv_id \notin DOMAIN atividades
       THEN Fail(ErrAtividadeNaoEnc)
       ELSE IF ra \notin DOMAIN alunos
       THEN Fail(ErrAlunoRaNaoEnc)
       ELSE LET payload == payload_of(atividades[atv_id], ra)
            IN /\ atividades' = [atividades EXCEPT ![atv_id].entregas =
                                   Put(@, ra, Put(payload, "arquivo", arquivo))]
               /\ UNCHANGED <<alunos, turmas, _next_atv_id>>
               /\ Persist
               /\ Fits
               /\ ret' = Ok(atividades'[atv_id])

set_nota_entrega_with_file(atv_id, ra, nota) ==
  /\ call = Idle
  /\ UNCHANGED outside
  /\ call' = [op |-> "set_nota_entrega", atv_id |-> atv_id, ra |-> ra, nota |-> nota]
  /\ IF nota = None
       THEN Fail(ErrInformeNota)
       ELSE IF FloatRaises(nota)
       THEN Fail(ErrNotaInvalida)
       ELSE IF OutOfRange(nota)
       THEN Fail(ErrNotaFaixa)
       ELSE IF atv_id \notin DOMAIN atividades
       THEN Fail(ErrAtividadeNaoEnc)
       ELSE IF ra \notin DOMAIN alunos
       THEN Fail(ErrAlunoRaNaoEnc)
       ELSE LET payload == payload_of(atividades[atv_id], ra)
            IN /\ atividades' = [atividades EXCEPT ![atv_id].entregas =
                                   Put(@, ra, Put(Put(payload, "arquivo", None), "nota", nota))]
               /\ UNCHANGED <<alunos, turmas, _next_atv_id>>
               /\ Persist
               /\ Fits
               /\ ret' = Ok(atividades'[atv_id])
set_nota_entrega(atv_id, ra, nota) ==
  /\ call = Idle
  /\ UNCHANGED outside
  /\ call' = [op |-> "set_nota_entrega", atv_id |-> atv_id, ra |-> ra, nota |-> nota]
  /\ IF nota = None
       THEN Fail(ErrInformeNota)
       ELSE IF FloatRaises(nota)
       THEN Fail(ErrNotaInvalida)
       ELSE IF OutOfRange(nota)
       THEN Fail(ErrNotaFaixa)
       ELSE IF atv_id \notin DOMAIN atividades
       THEN Fail(ErrAtividadeNaoEnc)
       ELSE IF ra \notin DOMAIN alunos
       THEN Fail(ErrAlunoRaNaoEnc)
       ELSE LET payload == payload_of(atividades[atv_id], ra)
            IN /\ atividades' = [atividades EXCEPT ![atv_id].entregas =
                                   Put(@, ra, Put(payload, "nota", nota))]
               /\ UNCHANGED <<alunos, turmas, _next_atv_id>>
               /\ Persist
               /\ Fits
               /\ ret' = Ok(atividades'[atv_id])

(* --------------------- notas do aluno (NP1, NP2, PIM) ------------------ *)
\* round((np1*4 + np2*4 + pim*2) / 10, 2) in hundredths: the weighted sum of
\* three grades given in hundredths is an even number of thousandths, so the
\* quotient is never halfway between two hundredths and round() takes the
\* nearest one
Media_truncating(np1, np2, pim) ==
  IF np1.t = "nan" \/ np2.t = "nan" \/ pim.t = "nan"
    THEN NaN
    ELSE F((np1.v * 4 + np2.v * 4 + pim.v * 2) \div 10)
Media(np1, np2, pim) ==
  IF np1.t = "nan" \/ np2.t = "nan" \/ pim.t = "nan"
    THEN NaN
    ELSE F((np1.v * 4 + np2.v * 4 + pim.v * 2 + 5) \div 10)

\* media >= 7.0 (False for nan)
FGe(a, b) == a.t = "float" /\ b.t = "float" /\ a.v >= b.v

get_notas_of(aluno) ==
  LET complete == aluno.np1 # None /\ aluno.np2 # None /\ aluno.pim # None
      media == IF complete THEN Media(aluno.np1, aluno.np2, aluno.pim) ELSE None
  IN [np1 |-> aluno.np1, np2 |-> aluno.np2, pim |-> aluno.pim,
      media |-> media,
      situacao |-> IF ~complete THEN "Sem notas"
                   ELSE IF FGe(media, F(700)) THEN "Aprovado" ELSE "Reprovado"]

get_notas(ra) == IF ra \in DOMAIN alunos THEN get_notas_of(alunos[ra]) ELSE None

\* _val(v, nome): the message of the ValueError raised, "" if none
_val(v, nome) ==
  IF v = None THEN ""
  ELSE IF FloatRaises(v) THEN ErrInvalida(nome)
  ELSE IF OutOfRange(v) THEN ErrFaixa(nome)
  ELSE ""

set_notas(ra, np1, np2, pim) ==
  /\ call = Idle
  /\ UNCHANGED outside
  /\ call' = [op |-> "set_notas", ra |-> ra, np1 |-> np1, np2 |-> np2, pim |-> pim]
  /\ IF ra \notin DOMAIN alunos
       THEN Fail(ErrAlunoNaoEnc)
       ELSE IF _val(np1, "NP1") # ""
       THEN Fail(_val(np1, "NP1"))
       ELSE IF _val(np2, "NP2") # ""
       THEN Fail(_val(np2, "NP2"))
       ELSE IF _val(pim, "PIM") # ""
       THEN Fail(_val(pim, "PIM"))
       ELSE /\ alunos' = [alunos EXCEPT ![ra] =
                            [@ EXCEPT !.np1 = IF np1 # None THEN np1 ELSE @,
                                      !.np2 = IF np2 # None THEN np2 ELSE @,
                                      !.pim = IF pim # None THEN pim ELSE @]]
            /\ UNCHANGED <<turmas, atividades, _next_atv_id>>
            /\ Persist
            /\ Fits
            /\ ret' = Ok(get_notas_of(alunos'[ra]))

(* ------------------------------ restart -------------------------------- *)
\* a new process: DataStore() builds empty tables and calls _load
restart ==
  /\ call = Idle
  /\ SESSIONS' = << >>
  /\ UNCHANGED <<now, issued, bearer, threads>>
  /\ call' = [op |-> "restart"]
  /\ LET s == _load(disk)
     IN /\ alunos' = s.alunos
        /\ turmas' = s.turmas
        /\ atividades' = s.atividades
        /\ _next_atv_id' = s.next_id
  /\ UNCHANGED disk
  /\ ret' = Ok(None)

(* ------------------------ routers/atividades.py ------------------------ *)
\* POST /atividades/ (the professor check is made before the handler)
criar_atividade_nocheck(turma_codigo) ==
  /\ call = Idle
  /\ UNCHANGED outside
  /\ call' = [op |-> "criar_atividade", turma_codigo |-> turma_codigo]
  /\ add_atividade_body(Atividade(0, turma_codigo))
  /\ ret' = Http(200, "", atividades'[_next_atv_id])
criar_atividade(turma_codigo) ==
  /\ call = Idle
  /\ UNCHANGED outside
  /\ call' = [op |-> "criar_atividade", turma_codigo |-> turma_codigo]
  /\ IF turma_codigo \notin DOMAIN turmas
       THEN /\ ret' = Http(404, ErrTurmaNaoEnc, None)
            /\ UNCHANGED <<mem, disk>>
       ELSE /\ add_atividade_body(Atividade(0, turma_codigo))
            /\ ret' = Http(200, "", atividades'[_next_atv_id])

(* ----------------------- consultas (read-only) ------------------------- *)
QueryRAs == RAs \cup {"C"}

\* a call that assigns no attribute of the store and never calls _save
QuerySaving(c, r) ==
  /\ call = Idle
  /\ UNCHANGED outside
  /\ call' = c
  /\ ret' = r
  /\ disk' = _save(alunos, turmas, atividades, _next_atv_id)
  /\ UNCHANGED mem
Query(c, r) ==
  /\ call = Idle
  /\ UNCHANGED outside
  /\ call' = c
  /\ ret' = r
  /\ UNCHANGED <<mem, disk>>

call_get_aluno(ra) == Query([op |-> "get_aluno", ra |-> ra], Ok(get_aluno(ra)))

\* list(self.alunos.values()); the result is taken as the set of its items
list_alunos == {alunos[ra] : ra \in DOMAIN alunos}
call_list_alunos == Query([op |-> "list_alunos"], Ok(list_alunos))

call_get_turma(codigo) ==
  Query([op |-> "get_turma", codigo |-> codigo], Ok(get_turma(codigo)))

call_get_atividade(atv_id) ==
  Query([op |-> "get_atividade", atv_id |-> atv_id], Ok(get_atividade(atv_id)))

call_get_notas(ra) == Query([op |-> "get_notas", ra |-> ra], Ok(get_notas(ra)))

\* the ids of the assignments a.turma_codigo == codigo
AtvIdsOf(codigo) == {i \in DOMAIN atividades : atividades[i].turma_codigo = codigo}

\* self.atividades.values() lists the assignments in creation order, which is
\* the order of their ids
RECURSIVE InIdOrder(_)
InIdOrder(S) ==
  IF S = {} THEN <<>>
  ELSE LET m == CHOOSE x \in S : \A y \in S : x <= y
       IN <<atividades[m]>> \o InIdOrder(S \ {m})

atividades_da_turma(codigo) == InIdOrder(AtvIdsOf(codigo))
call_atividades_da_turma(codigo) ==
  Query([op |-> "atividades_da_turma", codigo |-> codigo],
        Ok(atividades_da_turma(codigo)))

\* faltam = [ra for ra in t.alunos if ra not in atv.entregas.keys()]
faltam_all(atv, t) == t.alunos
faltam(atv, t) ==
  LET semEntrega(ra) == ra \notin DOMAIN atv.entregas
  IN SelectSeq(t.alunos, semEntrega)

pendencias_entrega(codigo) ==
  IF codigo \notin DOMAIN turmas
    THEN Raise(ErrTurmaNaoEnc)
    ELSE Ok([i \in AtvIdsOf(codigo) |-> faltam(atividades[i], turmas[codigo])])
call_pendencias_entrega(codigo) ==
  Query([op |-> "pendencias_entrega", codigo |-> codigo], pendencias_entrega(codigo))

\* payload = atv.entregas.get(ra); nota = payload.get("nota") if it is a dict
nota_de(atv, ra) ==
  IF ra \in DOMAIN atv.entregas THEN Get(atv.entregas[ra], "nota", None) ELSE None

\* sem_nota = [ra for ra in t.alunos if nota is None]
sem_nota_submitted(atv, t) ==
  LET notaNone(ra) == ra \in DOMAIN atv.entregas /\ nota_de(atv, ra) = None
  IN SelectSeq(t.alunos, notaNone)
sem_nota(atv, t) ==
  LET notaNone(ra) == nota_de(atv, ra) = None
  IN SelectSeq(t.alunos, notaNone)

pendencias_nota(codigo) ==
  IF codigo \notin DOMAIN turmas
    THEN Raise(ErrTurmaNaoEnc)
    ELSE Ok([i \in AtvIdsOf(codigo) |-> sem_nota(atividades[i], turmas[codigo])])
call_pendencias_nota(codigo) ==
  Query([op |-> "pendencias_nota", codigo |-> codigo], pendencias_nota(codigo))

(* ------------------------ routers/relatorios.py ------------------------ *)
\* round(n / d * scale, 2) in hundredths when the quotient is not halfway
\* between two hundredths: the nearest one
RoundNearest(n, d) == (2 * n + d) \div (2 * d)

\* the notes kept by _coletar_notas_da_atividade: not None, float() succeeds
\* and 0.0 <= n <= 10.0 (False for nan); one per submission, here by its ra
NotaValida(v) == v.t = "float" /\ v.v >= 0 /\ v.v <= 1000
_coletar_notas_da_atividade(atv) ==
  LET com == {ra \in DOMAIN atv.entregas : NotaValida(nota_de(atv, ra))}
  IN [ra \in com |-> nota_de(atv, ra)]

\* len(atv.entregas) / len(turma.alunos) * 100.0, rounded to 2 places, in
\* hundredths of a percent
percentual_truncating(total_entregas, turma) ==
  IF turma.alunos # <<>>
    THEN (total_entregas * 10000) \div Len(turma.alunos)
    ELSE 0
percentual_per_thousand(total_entregas, turma) ==
  IF turma.alunos # <<>>
    THEN RoundNearest(total_entregas * 100000, Len(turma.alunos))
    ELSE 0
percentual(total_entregas, turma) ==
  IF turma.alunos # <<>>
    THEN RoundNearest(total_entregas * 10000, Len(turma.alunos))
    ELSE 0

item_relatorio(atv, turma) ==
  LET total_entregas == Cardinality(DOMAIN atv.entregas)
  IN [id |-> atv.id, titulo |-> atv.titulo, data_entrega |-> atv.data_entrega,
      total_entregas |-> total_entregas,
      percentual_entregas |-> percentual(total_entregas, turma)]

soma_entregas(atvs) == SumOver([k \in DOMAIN atvs |-> Cardinality(DOMAIN atvs[k].entregas)], DOMAIN atvs)

relatorio_turma_of(codigo) ==
  IF codigo \notin DOMAIN turmas
    THEN Http(404, ErrTurmaNaoEnc, None)
    ELSE LET turma == turmas[codigo]
             atvs == atividades_da_turma(codigo)
         IN Http(200, "",
              [turma |-> turma.codigo, nome |-> turma.nome,
               total_alunos |-> Len(turma.alunos),
               total_atividades |-> Len(atvs),
               atividades |-> [k \in DOMAIN atvs |-> item_relatorio(atvs[k], turma)],
               media_entregas_por_atividade |->
                 IF atvs # <<>>
                   THEN RoundNearest(soma_entregas(atvs) * 100, Len(atvs))
                   ELSE 0])
relatorio_turma(codigo) ==
  Query([op |-> "relatorio_turma", codigo |-> codigo], relatorio_turma_of(codigo))

ErrSemNotas == "Sem notas registradas."

\* round(sum(notas) / len(notas), 2) in hundredths; a quotient halfway between
\* two hundredths goes to either, as its binary value falls
medias_de(notas) ==
  LET soma == SumOver([ra \in DOMAIN notas |-> notas[ra].v], DOMAIN notas)
      n == Cardinality(DOMAIN notas)
  IN IF (2 * soma) % (2 * n) = n
       THEN {soma \div n, soma \div n + 1}
       ELSE {RoundNearest(soma, n)}

media_notas_of(atividade_id) ==
  IF atividade_id \notin DOMAIN atividades
    THEN {Http(404, ErrAtividadeNaoEnc, None)}
    ELSE LET notas == _coletar_notas_da_atividade(atividades[atividade_id])
         IN IF DOMAIN notas = {}
              THEN {Http(200, "", [atividade_id |-> atividade_id, mensagem |-> ErrSemNotas])}
              ELSE {Http(200, "", [atividade_id |-> atividade_id, media |-> m,
                                   total_notas |-> Cardinality(DOMAIN notas)]) :
                       m \in medias_de(notas)}
media_notas(atividade_id) ==
  \E r \in media_notas_of(atividade_id) :
    Query([op |-> "media_notas", atividade_id |-> atividade_id], r)

\* int(round(n)): round() takes the nearest integer and, halfway, the even one
round_truncating(v) == v \div 100
round(v) ==
  LET q == v \div 100
      r == v % 100
  IN IF r < 50 THEN q
     ELSE IF r > 50 THEN q + 1
     ELSE IF q % 2 = 0 THEN q ELSE q + 1

Min(a, b) == IF a <= b THEN a ELSE b
Max(a, b) == IF a >= b THEN a ELSE b

\* k = min(max(int(round(n)), 0), 10)
bucket_of(n) == Min(Max(round(n.v), 0), 10)

Buckets == 0..10

distribuicao_notas_of(atividade_id) ==
  IF atividade_id \notin DOMAIN atividades
    THEN Http(404, ErrAtividadeNaoEnc, None)
    ELSE LET notas == _coletar_notas_da_atividade(atividades[atividade_id])
         IN IF DOMAIN notas = {}
              THEN Http(200, "", [atividade_id |-> atividade_id, mensagem |-> ErrSemNotas])
              ELSE Http(200, "",
                     [atividade_id |-> atividade_id,
                      distribuicao |->
                        [k \in Buckets |->
                           Cardinality({ra \in DOMAIN notas : bucket_of(notas[ra]) = k})]])
distribuicao_notas(atividade_id) ==
  Query([op |-> "distribuicao_notas", atividade_id |-> atividade_id],
        distribuicao_notas_of(atividade_id))

total_alunos ==
  Query([op |-> "total_alunos"],
        Http(200, "", [total_alunos |-> Cardinality(list_alunos)]))

(* ---------------------- routes that call the store --------------------- *)
\* the answer to a ValueError of the store: HTTPException(status, str(e))
Rejected(st, e) ==
  /\ ret' = Http(st, e, None)
  /\ UNCHANGED <<mem, disk>>

\* POST /turmas/ : ValueError -> 400
criar_turma(codigo, nome) ==
  /\ call = Idle
  /\ UNCHANGED outside
  /\ call' = [op |-> "criar_turma", codigo |-> codigo, nome |-> nome]
  /\ IF codigo \in DOMAIN turmas
       THEN Rejected(400, ErrTurmaCadastrada)
       ELSE /\ turmas' = Put(turmas, codigo, Turma(codigo, nome))
            /\ UNCHANGED <<alunos, atividades, _next_atv_id>>
            /\ Persist
            /\ Fits
            /\ ret' = Http(200, "", turmas'[codigo])

\* POST /turmas/{codigo}/alunos/{ra} : every ValueError -> 400
adicionar_aluno_na_turma(codigo, ra) ==
  /\ call = Idle
  /\ UNCHANGED outside
  /\ call' = [op |-> "adicionar_aluno_na_turma", codigo |-> codigo, ra |-> ra]
  /\ IF codigo \notin DOMAIN turmas
       THEN Rejected(400, ErrTurmaNaoEnc)
       ELSE IF ra \notin DOMAIN alunos
       THEN Rejected(400, ErrAlunoRaNaoEnc)
       ELSE /\ turmas' = IF ~InList(ra, turmas[codigo].alunos)
                           THEN [turmas EXCEPT ![codigo].alunos = Append(@, ra)]
                           ELSE turmas
            /\ UNCHANGED <<alunos, atividades, _next_atv_id>>
            /\ Persist
            /\ Fits
            /\ ret' = Http(200, "", turmas'[codigo])

\* POST /atividades/{atividade_id}/entregar : every ValueError -> 400
entregar_atividade(atividade_id, ra, arquivo) ==
  /\ call = Idle
  /\ UNCHANGED outside
  /\ call' = [op |-> "entregar_atividade", atividade_id |-> atividade_id,
              ra |-> ra, arquivo |-> arquivo]
  /\ IF atividade_id \notin DOMAIN atividades
       THEN Rejected(400, ErrAtividadeNaoEnc)
       ELSE IF ra \notin DOMAIN alunos
       THEN Rejected(400, ErrAlunoRaNaoEnc)
       ELSE LET payload == payload_of(atividades[atividade_id], ra)
            IN /\ atividades' = [atividades EXCEPT ![atividade_id].entregas =
                                   Put(@, ra, Put(payload, "arquivo", arquivo))]
               /\ UNCHANGED <<alunos, turmas, _next_atv_id>>
               /\ Persist
               /\ Fits
               /\ ret' = Http(200, "", atividades'[atividade_id])

\* the bodies offered to POST /consulta_rapida/notas/{ra}
LancarInputs ==
  {<<F(1000), None, None>>, <<None, F(700), None>>, <<F(1050), None, None>>,
   <<Txt, None, None>>, <<NaN, None, None>>}

\* POST /consulta_rapida/notas/{ra} : 404 before the store is called, then
\* ValueError -> 400; the answer carries the view returned by set_notas
lancar_notas(ra, np1, np2, pim) ==
  /\ call = Idle
  /\ UNCHANGED outside
  /\ call' = [op |-> "lancar_notas", ra |-> ra, np1 |-> np1, np2 |-> np2, pim |-> pim]
  /\ IF ra \notin DOMAIN alunos
       THEN Rejected(404, ErrAlunoNaoEnc)
       ELSE IF _val(np1, "NP1") # ""
       THEN Rejected(400, _val(np1, "NP1"))
       ELSE IF _val(np2, "NP2") # ""
       THEN Rejected(400, _val(np2, "NP2"))
       ELSE IF _val(pim, "PIM") # ""
       THEN Rejected(400, _val(pim, "PIM"))
       ELSE /\ alunos' = [alunos EXCEPT ![ra] =
                            [@ EXCEPT !.np1 = IF np1 # None THEN np1 ELSE @,
                                      !.np2 = IF np2 # None THEN np2 ELSE @,
                                      !.pim = IF pim # None THEN pim ELSE @]]
            /\ UNCHANGED <<turmas, atividades, _next_atv_id>>
            /\ Persist
            /\ Fits
            /\ ret' = Http(200, "", get_notas_of(alunos'[ra]))

AtvIds == 1..(MaxAtividades + 1)

\* the bodies offered to POST /atividades/{atividade_id}/nota
NotaCreateInputs == {F(800), F(1050), Txt}
ErrNotaCreate == "Input should be a valid number"
ErrInternal == "Internal Server Error"

\* POST /atividades/{atividade_id}/nota : NotaCreate refuses a nota that is no
\* number (422); the handler then calls db.set_nota, which DataStore does not
\* have: the AttributeError is no ValueError, so it is not turned into 400 and
\* the request ends with 500, the store untouched
registrar_nota(atividade_id, ra, nota) ==
  /\ call = Idle
  /\ UNCHANGED outside
  /\ call' = [op |-> "registrar_nota", atividade_id |-> atividade_id,
              ra |-> ra, nota |-> nota]
  /\ IF nota.t # "float"
       THEN Rejected(422, ErrNotaCreate)
       ELSE Rejected(500, ErrInternal)

Routes ==
  \/ \E codigo \in Codigos, nome \in Nomes : criar_turma(codigo, nome)
  \/ \E codigo \in Codigos, ra \in RAs : adicionar_aluno_na_turma(codigo, ra)
  \/ \E i \in AtvIds, ra \in RAs, f \in Arquivos : entregar_atividade(i, ra, f)
  \/ \E ra \in RAs, n \in LancarInputs : lancar_notas(ra, n[1], n[2], n[3])
  \/ \E i \in AtvIds, ra \in RAs, n \in NotaCreateInputs : registrar_nota(i, ra, n)

\* the caller takes the outcome of the call; the next call can be issued
return ==
  /\ call # Idle
  /\ call' = Idle
  /\ ret' = Ok(None)
  /\ UNCHANGED <<mem, disk, outside>>

Queries ==
  \/ \E ra \in QueryRAs : call_get_aluno(ra)
  \/ call_list_alunos
  \/ \E codigo \in Codigos : call_get_turma(codigo)
  \/ \E i \in AtvIds : call_get_atividade(i)
  \/ \E ra \in QueryRAs : call_get_notas(ra)
  \/ \E codigo \in Codigos : call_atividades_da_turma(codigo)
  \/ \E codigo \in Codigos : call_pendencias_entrega(codigo)
  \/ \E codigo \in Codigos : call_pendencias_nota(codigo)
  \/ \E codigo \in Codigos : relatorio_turma(codigo)
  \/ \E i \in AtvIds : media_notas(i)
  \/ \E i \in AtvIds : distribuicao_notas(i)
  \/ total_alunos

Next ==
  \/ \E ra \in RAs, nome \in Nomes : add_aluno(ra, nome)
  \/ \E codigo \in Codigos, nome \in Nomes : add_turma(codigo, nome)
  \/ \E codigo \in Codigos, ra \in RAs : add_aluno_to_turma(codigo, ra)
  \/ \E codigo \in Codigos : add_atividade(codigo)
  \/ \E i \in AtvIds, ra \in RAs, f \in Arquivos : add_entrega(i, ra, f)
  \/ \E i \in AtvIds, ra \in RAs, n \in GradeInputs : set_nota_entrega(i, ra, n)
  \/ \E ra \in RAs, n \in NotasInputs : set_notas(ra, n[1], n[2], n[3])
  \/ restart
  \/ \E codigo \in Codigos : criar_atividade(codigo)
  \/ Routes
  \/ Queries
  \/ return

Spec == Init /\ [][Next]_vars

(* ------------------- start from an existing data/db.json --------------- *)
\* documents of the persisted format; keys the loader treats as optional
\* may be missing
FileEmptyDoc == [exists |-> TRUE, raw |-> << >>]
FileCounter5 == [exists |-> TRUE, raw |-> [next_id |-> 5]]
FileNoCounter ==
  [exists |-> TRUE,
   raw |-> [alunos |-> [r \in {"A"} |-> [nome |-> "n1", ra |-> "A", curso |-> Curso]],
            turmas |-> [c \in {"T1"} |-> [codigo |-> "T1", nome |-> "n1"]]]]
FileExample ==
  [exists |-> TRUE,
   raw |-> [alunos |-> [r \in {"A"} |-> Aluno("n1", "A", Curso)],
            turmas |-> [c \in {"T1"} |-> [codigo |-> "T1", nome |-> "n1", alunos |-> <<"A">>]],
            atividades |-> [k \in {"1"} |->
               [id |-> 1, turma_codigo |-> "T1", titulo |-> Titulo,
                data_entrega |-> DataEntrega,
                entregas |-> [r \in {"A"} |-> [arquivo |-> "f1", nota |-> F(950)]]]],
            next_id |-> 2]]
InitFiles == {NoFile, FileEmptyDoc, FileCounter5, FileNoCounter, FileExample}

\* DataStore.__init__ with whatever data/db.json holds
InitLoad ==
  /\ disk \in InitFiles
  /\ alunos = _load(disk).alunos
  /\ turmas = _load(disk).turmas
  /\ atividades = _load(disk).atividades
  /\ _next_atv_id = _load(disk).next_id
  /\ call = Idle
  /\ ret = Ok(None)
  /\ Fresh

SpecLoad == InitLoad /\ [][Next]_vars

(* -------------------- stores offered to the queries -------------------- *)
\* Stores the operations above can build, larger than MaxSize admits: three
\* students, class T1 with a membership list, class T2 with no member, and
\* up to two assignments with submission records.
Alunos3 == {"A", "B", "C"}
MemberLists == {<<>>, <<"A">>, <<"A", "B">>, <<"B", "A">>, <<"A", "B", "C">>}

NoEntrega == [none |-> TRUE]
OnlyFile == [arquivo |-> "f1"]
OnlyNota(n) == [nota |-> n]
FileAndNota(n) == [arquivo |-> "f1", nota |-> n]

PayloadsA == {NoEntrega, OnlyFile, OnlyNota(F(740)), FileAndNota(F(760)),
              OnlyNota(F(1000)), OnlyNota(NaN), OnlyNota(F(650)), OnlyNota(F(750))}
PayloadsB == {NoEntrega, OnlyFile, OnlyNota(F(760)), OnlyNota(NaN), OnlyNota(F(0))}
PayloadsC == {NoEntrega, OnlyFile, OnlyNota(F(1000))}

EntregasFrom(pa, pb, pc) ==
  LET p == [ra \in Alunos3 |-> IF ra = "A" THEN pa ELSE IF ra = "B" THEN pb ELSE pc]
  IN [ra \in {x \in Alunos3 : p[x] # NoEntrega} |-> p[ra]]

\* the second assignment: none, or one of class T1 or T2, empty or with the
\* file of A
SecondAtividades ==
  {<<>>} \cup
  {[i \in {2} |-> [Atividade(2, c) EXCEPT !.entregas = e]] :
     c \in Codigos, e \in {<<>>, [ra \in {"A"} |-> OnlyFile]}}

ReportStores ==
  {[alunos |-> [ra \in Alunos3 |-> Aluno("n1", ra, Curso)],
    turmas |-> [c \in Codigos |->
                  IF c = "T1" THEN [Turma(c, "n1") EXCEPT !.alunos = m]
                              ELSE Turma(c, "n2")],
    atividades |-> a,
    next_id |-> Cardinality(DOMAIN a) + 1] :
     m \in MemberLists,
     a \in {<<>>} \cup
           {[i \in {1} \cup DOMAIN second |->
               IF i = 1 THEN [Atividade(1, "T1") EXCEPT
                                !.entregas = EntregasFrom(pa, pb, pc)]
                        ELSE second[i]] :
              pa \in PayloadsA, pb \in PayloadsB, pc \in PayloadsC,
              second \in SecondAtividades}}

\* one student with every combination of stored grades, no class
GradeVals == {None, NaN, F(0), F(500), F(600), F(699), F(700), F(800), F(1000)}
GradeStores ==
  {[alunos |-> [ra \in {"A"} |->
                  [Aluno("n1", ra, Curso) EXCEPT !.np1 = g1, !.np2 = g2, !.pim = g3]],
    turmas |-> <<>>,
    atividades |-> <<>>,
    next_id |-> 1] : g1 \in GradeVals, g2 \in GradeVals, g3 \in GradeVals}

InitQuery ==
  /\ \E s \in ReportStores \cup GradeStores :
       /\ alunos = s.alunos
       /\ turmas = s.turmas
       /\ atividades = s.atividades
       /\ _next_atv_id = s.next_id
  /\ disk = _save(alunos, turmas, atividades, _next_atv_id)
  /\ call = Idle
  /\ ret = Ok(None)
  /\ Fresh

NextQuery == Queries \/ return

SpecQuery == InitQuery /\ [][NextQuery]_vars

(* ------------- POST /atividades/ served by worker threads -------------- *)
\* criar_atividade is a plain def: the server runs each request in a thread
\* of its pool, and DataStore takes no lock. A request is at the line of
\* add_atividade it executes next; atv is the object the handler built, tmp
\* the value `+= 1` has loaded.
MaxThreads == 2
Threads == 1..MaxThreads

Waiting == [pc |-> "waiting", turma_codigo |-> "", id |-> 0, tmp |-> 0, status |-> 0]
At(t, pc) == threads[t].pc = pc
Goto(t, pc) == [threads[t] EXCEPT !.pc = pc]
SharedOnly == UNCHANGED <<call, ret, auth>>

\* the handler up to the call of db.add_atividade: 404 for an unknown class
thread_criar_atividade(t, turma_codigo) ==
  /\ At(t, "waiting")
  /\ threads' = [threads EXCEPT ![t] =
       IF turma_codigo \notin DOMAIN turmas
         THEN [Waiting EXCEPT !.pc = "done", !.turma_codigo = turma_codigo, !.status = 404]
         ELSE [Waiting EXCEPT !.pc = "assign", !.turma_codigo = turma_codigo]]
  /\ UNCHANGED <<mem, disk>>
  /\ SharedOnly

\* atv.id = self._next_atv_id
thread_assign_id(t) ==
  /\ At(t, "assign")
  /\ threads' = [threads EXCEPT ![t] = [Goto(t, "load") EXCEPT !.id = _next_atv_id]]
  /\ UNCHANGED <<mem, disk>>
  /\ SharedOnly

\* self._next_atv_id += 1 : the attribute is loaded ...
thread_load_counter(t) ==
  /\ At(t, "load")
  /\ threads' = [threads EXCEPT ![t] = [Goto(t, "store") EXCEPT !.tmp = _next_atv_id]]
  /\ UNCHANGED <<mem, disk>>
  /\ SharedOnly

\* ... and stored one higher
thread_store_counter(t) ==
  /\ At(t, "store")
  /\ _next_atv_id' = threads[t].tmp + 1
  /\ threads' = [threads EXCEPT ![t] = Goto(t, "insert")]
  /\ UNCHANGED <<alunos, turmas, atividades, disk>>
  /\ SharedOnly

\* self.atividades[atv.id] = atv
thread_insert(t) ==
  /\ At(t, "insert")
  /\ atividades' = Put(atividades, threads[t].id,
                       [Atividade(0, threads[t].turma_codigo) EXCEPT !.id = threads[t].id])
  /\ threads' = [threads EXCEPT ![t] = Goto(t, "save")]
  /\ UNCHANGED <<alunos, turmas, _next_atv_id, disk>>
  /\ SharedOnly

\* self._save(); return atv
thread_save(t) ==
  /\ At(t, "save")
  /\ disk' = _save(alunos, turmas, atividades, _next_atv_id)
  /\ threads' = [threads EXCEPT ![t] = [Goto(t, "done") EXCEPT !.status = 200]]
  /\ UNCHANGED mem
  /\ SharedOnly

\* the stores the requests arrive at: class T1 alone, and both classes with
\* one assignment of T1
ConcStores ==
  {[alunos |-> << >>,
    turmas |-> [c \in {"T1"} |-> Turma(c, "n1")],
    atividades |-> << >>, next_id |-> 1],
   [alunos |-> << >>,
    turmas |-> [c \in Codigos |-> Turma(c, "n1")],
    atividades |-> [i \in {1} |-> [Atividade(0, "T1") EXCEPT !.id = 1]], next_id |-> 2]}

InitConc ==
  /\ \E s \in ConcStores :
       /\ alunos = s.alunos
       /\ turmas = s.turmas
       /\ atividades = s.atividades
       /\ _next_atv_id = s.next_id
  /\ disk = _save(alunos, turmas, atividades, _next_atv_id)
  /\ call = Idle
  /\ ret = Ok(None)
  /\ SESSIONS = << >>
  /\ now = 0
  /\ issued = 0
  /\ bearer = NoHeader
  /\ threads = [t \in Threads |-> Waiting]

NextConc ==
  \/ \E t \in Threads, codigo \in Codigos : thread_criar_atividade(t, codigo)
  \/ \E t \in Threads : thread_assign_id(t)
  \/ \E t \in Threads : thread_load_counter(t)
  \/ \E t \in Threads : thread_store_counter(t)
  \/ \E t \in Threads : thread_insert(t)
  \/ \E t \in Threads : thread_save(t)

SpecConc == InitConc /\ [][NextConc]_vars

(* --------------------- _save when the write fails ---------------------- *)
\* mkdir, open(DATA_FILE, "w") or json.dump raises OSError: nothing in _save
\* or in its callers catches it. The file is as it was when mkdir or open
\* failed, and cut short (no JSON document) when open had truncated it and
\* the dump failed.
ErrOS == "OSError"
TornFile == [exists |-> TRUE, raw |-> [truncated |-> TRUE]]
_save_fails == disk' \in {disk, TornFile}

\* add_aluno past its duplicate check, with a failing _save
add_aluno_save_fails(ra, nome) ==
  /\ call = Idle
  /\ UNCHANGED outside
  /\ call' = [op |-> "add_aluno", ra |-> ra, nome |-> nome]
  /\ ra \notin DOMAIN alunos
  /\ alunos' = Put(alunos, ra, Aluno(nome, ra, Curso))
  /\ UNCHANGED <<turmas, atividades, _next_atv_id>>
  /\ _save_fails
  /\ Fits
  /\ ret' = Raise(ErrOS)

\* add_atividade with a failing _save
add_atividade_save_fails(turma_codigo) ==
  /\ call = Idle
  /\ UNCHANGED outside
  /\ call' = [op |-> "add_atividade", turma_codigo |-> turma_codigo]
  /\ atividades' = Put(atividades, _next_atv_id,
                       [Atividade(0, turma_codigo) EXCEPT !.id = _next_atv_id])
  /\ _next_atv_id' = _next_atv_id + 1
  /\ UNCHANGED <<alunos, turmas>>
  /\ _save_fails
  /\ Fits
  /\ ret' = Raise(ErrOS)

NextIO ==
  \/ \E ra \in RAs, nome \in Nomes : add_aluno(ra, nome)
  \/ \E codigo \in Codigos : add_atividade(codigo)
  \/ \E ra \in RAs, nome \in Nomes : add_aluno_save_fails(ra, nome)
  \/ \E codigo \in Codigos : add_atividade_save_fails(codigo)
  \/ return

SpecIO == Init /\ [][NextIO]_vars

(* ------------------------------ app/auth.py ---------------------------- *)
\* the fixed users of the demonstration
USERS ==
  [u \in {"aluno", "professor"} |->
     IF u = "aluno"
       THEN [username |-> "aluno", password |-> "aluno123", role |-> "aluno", ra |-> "H76DJH0"]
       ELSE [username |-> "professor", password |-> "prof123", role |-> "professor", ra |-> ""]]
Usernames == {"aluno", "professor", "admin"}
Passwords == {"aluno123", "prof123"}

\* hours a session lasts
SESSION_TTL == 8
\* most tokens login issues, and the last hour of the clock
MaxTokens == 2
MaxNow == 12

\* An Authorization header, as authorization.split() sees it: the number of
\* parts, the first part in lower case, and the token (the second part).
\* uuid4 gives every login a token no earlier login gave and no client can
\* guess: tokens are numbered as issued, and 0 is a token never issued.
OnePart == [parts |-> 1, scheme |-> "bearer", token |-> 0]
Basic(t) == [parts |-> 2, scheme |-> "basic", token |-> t]
Bearer(t) == [parts |-> 2, scheme |-> "bearer", token |-> t]
Headers == {NoHeader, OnePart} \cup {Basic(t) : t \in 0..issued} \cup {Bearer(t) : t \in 0..issued}
WellFormed(authorization) == authorization.parts = 2 /\ authorization.scheme = "bearer"

ErrAusente == "Authorization header ausente."
ErrAuthInvalido == "Authorization invalido (use Bearer token)."
ErrTokenInvalido == "Token invalido ou expirado."
ErrTokenExpirado == "Token expirado."
ErrLogin == "Usuario ou senha invalidos."
ErrSomenteProfessor == "Acesso permitido somente ao professor."

Drop(sessions, tokens) == [t \in DOMAIN sessions \ tokens |-> sessions[t]]
NoSession == [username |-> "", role |-> "", ra |-> "", exp |-> 0]
Refused(st, e, expired) == [status |-> st, err |-> e, sess |-> NoSession, expired |-> expired]

\* the session of the header, or the 401 raised; expired holds the token the
\* call pops from SESSIONS
_get_session_from_header(authorization) ==
  IF authorization.parts = 0
    THEN Refused(401, ErrAusente, {})
    ELSE IF ~WellFormed(authorization)
    THEN Refused(401, ErrAuthInvalido, {})
    ELSE IF authorization.token \notin DOMAIN SESSIONS
    THEN Refused(401, ErrTokenInvalido, {})
    ELSE IF SESSIONS[authorization.token].exp < now
    THEN Refused(401, ErrTokenExpirado, {authorization.token})
    ELSE [status |-> 0, err |-> "", sess |-> SESSIONS[authorization.token], expired |-> {}]

require_auth(authorization) == _get_session_from_header(authorization)

require_professor(authorization) ==
  LET r == require_auth(authorization)
  IN IF r.status = 0 /\ r.sess.role # "professor"
       THEN Refused(403, ErrSomenteProfessor, {})
       ELSE r

\* _issue_token: a new token, valid for SESSION_TTL from now
_issue_token(user) ==
  /\ issued < MaxTokens
  /\ issued' = issued + 1
  /\ SESSIONS' = Put(SESSIONS, issued + 1,
                     [username |-> user.username, role |-> user.role, ra |-> user.ra,
                      exp |-> now + SESSION_TTL])
  /\ ret' = Http(200, "", [token |-> issued + 1, role |-> user.role,
                           username |-> user.username, ra |-> user.ra,
                           exp |-> now + SESSION_TTL])

\* POST /auth/login
login(username, password) ==
  /\ call = Idle
  /\ call' = [op |-> "login", username |-> username, password |-> password]
  /\ IF username \notin DOMAIN USERS \/ password # USERS[username].password
       THEN /\ ret' = Http(401, ErrLogin, None)
            /\ UNCHANGED <<SESSIONS, issued>>
       ELSE _issue_token(USERS[username])
  /\ UNCHANGED <<now, bearer, threads, mem, disk>>

\* GET /auth/me
me ==
  /\ call = Idle
  /\ call' = [op |-> "me"]
  /\ LET r == _get_session_from_header(bearer)
     IN /\ SESSIONS' = Drop(SESSIONS, r.expired)
        /\ ret' = IF r.status # 0
                    THEN Http(r.status, r.err, None)
                    ELSE Http(200, "", [username |-> r.sess.username, role |-> r.sess.role,
                                        ra |-> r.sess.ra])
  /\ UNCHANGED <<now, issued, bearer, threads, mem, disk>>

\* POST /auth/logout
logout_keeping ==
  /\ call = Idle
  /\ call' = [op |-> "logout"]
  /\ ret' = Http(200, "", [ok |-> TRUE])
  /\ UNCHANGED <<SESSIONS, now, issued, bearer, threads, mem, disk>>
logout ==
  /\ call = Idle
  /\ call' = [op |-> "logout"]
  /\ SESSIONS' = IF WellFormed(bearer) THEN Drop(SESSIONS, {bearer.token}) ELSE SESSIONS
  /\ ret' = Http(200, "", [ok |-> TRUE])
  /\ UNCHANGED <<now, issued, bearer, threads, mem, disk>>

\* datetime.utcnow() moves on, half a session at a time
tick ==
  /\ call = Idle
  /\ now + SESSION_TTL \div 2 <= MaxNow
  /\ now' = now + SESSION_TTL \div 2
  /\ UNCHANGED <<SESSIONS, issued, bearer, threads, mem, disk, call, ret>>

\* the client sends its next requests with another Authorization header
present(authorization) ==
  /\ call = Idle
  /\ authorization # bearer
  /\ bearer' = authorization
  /\ UNCHANGED <<SESSIONS, now, issued, threads, mem, disk, call, ret>>

NextAuth ==
  \/ \E u \in Usernames, p \in Passwords : login(u, p)
  \/ me
  \/ logout
  \/ tick
  \/ \E h \in Headers : present(h)
  \/ return

SpecAuth == Init /\ [][NextAuth]_vars

(* ------------------- the routes behind require_professor --------------- *)
\* A request to a route declared with Depends(require_professor): the
\* dependency runs on the Authorization header before the handler; when it
\* raises, the handler does not run and the answer is the 401 or 403 raised
\* (an expired session is popped on the way).
Secured(c, handler) ==
  LET r == require_professor(bearer)
  IN IF r.status = 0
       THEN handler
       ELSE /\ call = Idle
            /\ call' = c
            /\ ret' = Http(r.status, r.err, None)
            /\ SESSIONS' = Drop(SESSIONS, r.expired)
            /\ UNCHANGED <<now, issued, bearer, threads, mem, disk>>

http_criar_turma(codigo, nome) ==
  Secured([op |-> "criar_turma", codigo |-> codigo, nome |-> nome],
          criar_turma(codigo, nome))
http_adicionar_aluno_na_turma(codigo, ra) ==
  Secured([op |-> "adicionar_aluno_na_turma", codigo |-> codigo, ra |-> ra],
          adicionar_aluno_na_turma(codigo, ra))
http_criar_atividade(turma_codigo) ==
  Secured([op |-> "criar_atividade", turma_codigo |-> turma_codigo],
          criar_atividade(turma_codigo))
http_entregar_atividade(atividade_id, ra, arquivo) ==
  Secured([op |-> "entregar_atividade", atividade_id |-> atividade_id,
           ra |-> ra, arquivo |-> arquivo],
          entregar_atividade(atividade_id, ra, arquivo))
http_registrar_nota(atividade_id, ra, nota) ==
  Secured([op |-> "registrar_nota", atividade_id |-> atividade_id,
           ra |-> ra, nota |-> nota],
          registrar_nota(atividade_id, ra, nota))
http_lancar_notas(ra, np1, np2, pim) ==
  Secured([op |-> "lancar_notas", ra |-> ra, np1 |-> np1, np2 |-> np2, pim |-> pim],
          lancar_notas(ra, np1, np2, pim))

\* POST /alunos/ : routers/alunos.py imports NotasUpdate and NotasView, which
\* app/models.py does not define, so main._safe_include catches the
\* ImportError and the router is never included: the application has no
\* route for the path and answers 404, whatever the header
ErrNoRoute == "Not Found"
http_criar_aluno(ra, nome) ==
  /\ call = Idle
  /\ call' = [op |-> "criar_aluno", ra |-> ra, nome |-> nome]
  /\ ret' = Http(404, ErrNoRoute, None)
  /\ UNCHANGED <<mem, disk, outside>>

\* the stores the server starts with: no file, or a file with student A
HttpStores ==
  {[alunos |-> << >>],
   [alunos |-> [r \in {"A"} |-> Aluno("n1", r, Curso)]]}

\* three logins before the requests: the professor at hour 0 (token 1), then
\* the student and the professor again at hour 4 (tokens 2 and 3); at hour 12
\* token 1 has expired and tokens 2 and 3 have not
HttpSessions ==
  [t \in 1..3 |->
     [username |-> IF t = 2 THEN "aluno" ELSE "professor",
      role |-> IF t = 2 THEN "aluno" ELSE "professor",
      ra |-> IF t = 2 THEN USERS["aluno"].ra ELSE "",
      exp |-> (IF t = 1 THEN 0 ELSE SESSION_TTL \div 2) + SESSION_TTL]]

InitHttp ==
  /\ \E s \in HttpStores : alunos = s.alunos
  /\ turmas = << >>
  /\ atividades = << >>
  /\ _next_atv_id = 1
  /\ disk = IF alunos = << >> THEN NoFile
                              ELSE _save(alunos, turmas, atividades, _next_atv_id)
  /\ call = Idle
  /\ ret = Ok(None)
  /\ SESSIONS = HttpSessions
  /\ now = SESSION_TTL + SESSION_TTL \div 2
  /\ issued = Len(HttpSessions)
  /\ bearer = NoHeader
  /\ threads = NoThreads

NextHttp ==
  \/ \E ra \in RAs, nome \in Nomes : http_criar_aluno(ra, nome)
  \/ \E codigo \in Codigos, nome \in Nomes : http_criar_turma(codigo, nome)
  \/ \E codigo \in Codigos, ra \in RAs : http_adicionar_aluno_na_turma(codigo, ra)
  \/ \E codigo \in Codigos : http_criar_atividade(codigo)
  \/ \E i \in AtvIds, ra \in RAs, f \in Arquivos : http_entregar_atividade(i, ra, f)
  \/ \E i \in AtvIds, ra \in RAs, n \in NotaCreateInputs : http_registrar_nota(i, ra, n)
  \/ \E ra \in RAs, n \in LancarInputs : http_lancar_notas(ra, n[1], n[2], n[3])
  \/ \E h \in Headers : present(h)
  \/ return

SpecHttp == InitHttp /\ [][NextHttp]_vars

(* ------------------------------ vocabulary ----------------------------- *)
\* the error kinds of the messages the store raises
NotFound     == {ErrTurmaNaoEnc, ErrAlunoRaNaoEnc, ErrAtividadeNaoEnc, ErrAlunoNaoEnc}
DuplicateKey == {ErrRaCadastrado, ErrTurmaCadastrada}
InvalidValue == {ErrInformeNota, ErrNotaInvalida, ErrNotaFaixa}
                \cup {ErrInvalida(n) : n \in {"NP1", "NP2", "PIM"}}
                \cup {ErrFaixa(n) : n \in {"NP1", "NP2", "PIM"}}
MutatingOps == {"add_aluno", "add_turma", "add_aluno_to_turma", "add_atividade",
                "add_entrega", "set_nota_entrega", "set_notas"}
CreatesAtividade == {"add_atividade", "criar_atividade"}
\* set_notas and the route that calls it
CallsSetNotas == {"set_notas", "lancar_notas"}
Succeeded == ret.err = ""

(* =============================== claims ================================ *)

\* C1: from an empty store the k-th successful add_atividade receives id k:
\* the stored ids are exactly 1..k, each assignment is stored under its own
\* id, the id handed out is larger than every id stored before (whatever the
\* class), earlier assignments keep their ids, and the counter is greater
\* than every stored id.
C1_Ids ==
  /\ DOMAIN atividades = 1..(_next_atv_id - 1)
  /\ \A i \in DOMAIN atividades : atividades[i].id = i
  /\ (call.op \in CreatesAtividade /\ Succeeded) =>
       /\ ret.val.id = Cardinality(DOMAIN atividades)
       /\ atividades[ret.val.id] = ret.val
C1_Step ==
  (call'.op \in CreatesAtividade /\ ret'.err = "") =>
    /\ ret'.val.id = Cardinality(DOMAIN atividades) + 1
    /\ \A i \in DOMAIN atividades : i < ret'.val.id /\ atividades'[i].id = i
    /\ _next_atv_id' > ret'.val.id
C1_IdsIncrease == []C1_Ids /\ [][C1_Step]_vars
\* the second assignment created, of another class than the first, got id 2
C1_Witness ==
  /\ call.op = "add_atividade" /\ Succeeded /\ ret.val.id = 2
  /\ atividades[1].turma_codigo # atividades[2].turma_codigo

\* C2: when a mutating store operation has returned successfully, the file
\* holds exactly the document of the current in-memory state.
C2_SnapshotCurrent ==
  (call.op \in MutatingOps /\ Succeeded) =>
    disk = _save(alunos, turmas, atividades, _next_atv_id)
C2_Witness ==
  /\ call.op = "set_nota_entrega" /\ Succeeded
  /\ disk.exists /\ disk.raw.atividades["1"].entregas # << >>

\* C3: saving the state and loading the document gives back the same
\* students, classes, assignments (submissions with only arquivo, only nota
\* or both) and counter; a restart leaves the store as it was; the counter
\* is the snapshot's next_id, or 1 when the snapshot has none, and the next
\* assignment created receives that id.
StateRecord ==
  [alunos |-> alunos, turmas |-> turmas, atividades |-> atividades,
   next_id |-> _next_atv_id]
C3_RoundTripState ==
  /\ _load(_save(alunos, turmas, atividades, _next_atv_id)) = StateRecord
  /\ disk.exists => _next_atv_id = (IF "next_id" \in DOMAIN disk.raw
                                      THEN disk.raw.next_id ELSE 1)
C3_Step ==
  /\ call'.op = "restart" => mem' = mem
  /\ (call'.op \in CreatesAtividade /\ ret'.err = "" /\ disk.exists) =>
       ret'.val.id = (IF "next_id" \in DOMAIN disk.raw THEN disk.raw.next_id ELSE 1)
C3_RoundTrip == []C3_RoundTripState /\ [][C3_Step]_vars
\* the store was started on a snapshot with next_id 5 and the next
\* assignment received id 5
C3_Witness ==
  /\ call.op = "add_atividade" /\ Succeeded /\ ret.val.id = 5
  /\ 5 \in DOMAIN atividades /\ Cardinality(DOMAIN atividades) = 1

\* C4: add_aluno with an ra already stored and add_turma with a codigo
\* already stored raise the duplicate error and change neither the store
\* (the existing record keeps its name, grades, members) nor the file; each
\* student is stored under its own ra and each class under its own codigo.
C4_KeysUnique ==
  /\ \A r \in DOMAIN alunos : alunos[r].ra = r
  /\ \A c \in DOMAIN turmas : turmas[c].codigo = c
C4_Step ==
  /\ (call'.op = "add_aluno" /\ call'.ra \in DOMAIN alunos) =>
       ret'.err \in DuplicateKey /\ <<mem, disk>>' = <<mem, disk>>
  /\ (call'.op = "add_turma" /\ call'.codigo \in DOMAIN turmas) =>
       ret'.err \in DuplicateKey /\ <<mem, disk>>' = <<mem, disk>>
C4_Duplicate == []C4_KeysUnique /\ [][C4_Step]_vars
\* a duplicate add_aluno with another name was refused for a graded student
C4_Witness ==
  /\ call.op = "add_aluno" /\ ret.err = ErrRaCadastrado
  /\ alunos[call.ra].nome # call.nome /\ alunos[call.ra].np1 # None

\* C5: add_aluno with an ra not stored succeeds and the student is then
\* stored with np1, np2 and pim absent; as long as no set_notas succeeds for
\* a student without grades, get_notas gives media absent and "Sem notas".
SemNotas(a) ==
  /\ a.np1 = None /\ a.np2 = None /\ a.pim = None
  /\ get_notas_of(a).media = None /\ get_notas_of(a).situacao = "Sem notas"
C5_Step ==
  /\ (call'.op = "add_aluno" /\ call'.ra \notin DOMAIN alunos) =>
       /\ ret'.err = ""
       /\ call'.ra \in DOMAIN alunos'
       /\ alunos'[call'.ra].ra = call'.ra /\ alunos'[call'.ra].nome = call'.nome
       /\ SemNotas(alunos'[call'.ra])
       /\ ret'.val = alunos'[call'.ra]
  /\ \A r \in DOMAIN alunos :
       (SemNotas(alunos[r]) /\ ~(call'.op \in CallsSetNotas /\ call'.ra = r /\ ret'.err = ""))
         => (r \in DOMAIN alunos' /\ SemNotas(alunos'[r]))
C5_NewStudent == [][C5_Step]_vars
C5_Witness ==
  /\ call.op = "add_aluno" /\ Succeeded
  /\ get_notas(call.ra).situacao = "Sem notas" /\ get_notas(call.ra).media = None

\* C6: add_aluno_to_turma raises a not-found error, changing nothing, when
\* the class or the student is missing; for a student who is already a
\* member it succeeds and leaves the member list as it is; otherwise it
\* appends the ra.  No member list holds an ra twice or an ra of no student.
MemberAt(c, i) == turmas[c].alunos[i]
C6_Members ==
  \A c \in DOMAIN turmas :
    \A i \in 1..Len(turmas[c].alunos) :
      /\ MemberAt(c, i) \in DOMAIN alunos
      /\ \A j \in 1..Len(turmas[c].alunos) : MemberAt(c, i) = MemberAt(c, j) => i = j
C6_Step ==
  call'.op = "add_aluno_to_turma" =>
    LET c == call'.codigo
        r == call'.ra
    IN IF c \notin DOMAIN turmas \/ r \notin DOMAIN alunos
         THEN ret'.err \in NotFound /\ <<mem, disk>>' = <<mem, disk>>
         ELSE /\ ret'.err = ""
              /\ <<alunos, atividades, _next_atv_id>>' = <<alunos, atividades, _next_atv_id>>
              /\ \A d \in DOMAIN turmas : d # c => turmas'[d] = turmas[d]
              /\ IF \E i \in 1..Len(turmas[c].alunos) : MemberAt(c, i) = r
                   THEN turmas' = turmas
                   ELSE turmas'[c].alunos = Append(turmas[c].alunos, r)
C6_AddMember == []C6_Members /\ [][C6_Step]_vars
\* a successful add_aluno_to_turma into a class that has exactly this member
C6_Witness ==
  /\ call.op = "add_aluno_to_turma" /\ Succeeded
  /\ turmas[call.codigo].alunos = <<call.ra>>

\* C7 as stated: add_atividade raises a not-found error for a turma_codigo
\* that is no key of turmas.
C7_StoreRejectsUnknownClass ==
  (call.op = "add_atividade" /\ call.turma_codigo \notin DOMAIN turmas) =>
    ret.err \in NotFound
\* C7 amended: add_atividade makes no check of the class: it always stores
\* the assignment under the counter value and advances the counter; the
\* check is made by the caller criar_atividade (POST /atividades/), which for
\* an unknown class answers 404, stores nothing and leaves the counter.
C7_Step ==
  /\ call'.op = "add_atividade" =>
       /\ ret'.err = ""
       /\ ret'.val.id = _next_atv_id
       /\ ret'.val.turma_codigo = call'.turma_codigo
       /\ _next_atv_id' = _next_atv_id + 1
       /\ _next_atv_id \in DOMAIN atividades'
  /\ (call'.op = "criar_atividade" /\ call'.turma_codigo \notin DOMAIN turmas) =>
       /\ ret'.status = 404 /\ ret'.err \in NotFound
       /\ <<mem, disk>>' = <<mem, disk>>
  /\ (call'.op = "criar_atividade" /\ call'.turma_codigo \in DOMAIN turmas) =>
       /\ ret'.status = 200
       /\ ret'.val.id = _next_atv_id
       /\ _next_atv_id' = _next_atv_id + 1
C7_CallerChecksClass == [][C7_Step]_vars
\* the store accepted an assignment of a class that does not exist
C7_Witness ==
  /\ call.op = "add_atividade" /\ Succeeded
  /\ call.turma_codigo \notin DOMAIN turmas
  /\ atividades[ret.val.id].turma_codigo = call.turma_codigo

\* C8 as stated: every submission key is the ra of a stored student, and
\* add_entrega and set_nota_entrega end with a not-found error whenever the
\* assignment id or the ra is missing.
C8_KeysAreStudents ==
  \A i \in DOMAIN atividades : DOMAIN atividades[i].entregas \subseteq DOMAIN alunos
C8_NotFoundWheneverAbsent ==
  /\ C8_KeysAreStudents
  /\ (/\ call.op \in {"add_entrega", "set_nota_entrega"}
      /\ (call.atv_id \notin DOMAIN atividades \/ call.ra \notin DOMAIN alunos))
       => ret.err \in NotFound
\* C8 amended: every submission key is the ra of a stored student; both
\* operations fail, changing nothing, when the assignment id or the ra is
\* missing: add_entrega with a not-found error, set_nota_entrega with a
\* not-found error unless its nota is itself rejected, in which case the
\* invalid-value error comes first.  With the assignment and the student
\* stored (and the nota accepted) they succeed whether or not the student is
\* a member of the assignment's class.
C8_Step ==
  /\ call'.op = "add_entrega" =>
       IF call'.atv_id \notin DOMAIN atividades \/ call'.ra \notin DOMAIN alunos
         THEN ret'.err \in NotFound /\ <<mem, disk>>' = <<mem, disk>>
         ELSE ret'.err = "" /\ call'.ra \in DOMAIN atividades'[call'.atv_id].entregas
  /\ call'.op = "set_nota_entrega" =>
       LET n == call'.nota
           rejected == \/ n = None
                       \/ n.t = "str"
                       \/ (n.t = "float" /\ (n.v < 0 \/ n.v > 1000))
       IN IF call'.atv_id \notin DOMAIN atividades \/ call'.ra \notin DOMAIN alunos
            THEN /\ <<mem, disk>>' = <<mem, disk>>
                 /\ IF rejected THEN ret'.err \in InvalidValue ELSE ret'.err \in NotFound
            ELSE ~rejected =>
                   ret'.err = "" /\ call'.ra \in DOMAIN atividades'[call'.atv_id].entregas
C8_SubmissionsOfStudents == []C8_KeysAreStudents /\ [][C8_Step]_vars
\* a submission was recorded for a student who is no member of the
\* assignment's (existing) class
C8_Witness ==
  /\ call.op = "add_entrega" /\ Succeeded
  /\ atividades[call.atv_id].turma_codigo \in DOMAIN turmas
  /\ turmas[atividades[call.atv_id].turma_codigo].alunos = << >>
  /\ call.ra \in DOMAIN atividades[call.atv_id].entregas

\* C9: a successful set_nota_entrega changes only the nota of the
\* submission of its ra (an arquivo recorded before stays, none appears), a
\* successful add_entrega changes only the arquivo (a nota set before stays,
\* none appears); the other submissions of the assignment, its other fields
\* and all other assignments stay as they were.
OtherField(op) == IF op = "add_entrega" THEN "nota" ELSE "arquivo"
C9_Step ==
  (call'.op \in {"add_entrega", "set_nota_entrega"} /\ ret'.err = "") =>
    LET i == call'.atv_id
        r == call'.ra
        old == atividades[i].entregas
        new == atividades'[i].entregas
        keep == OtherField(call'.op)
    IN /\ DOMAIN atividades' = DOMAIN atividades
       /\ \A j \in DOMAIN atividades : j # i => atividades'[j] = atividades[j]
       /\ [atividades'[i] EXCEPT !.entregas = old] = atividades[i]
       /\ DOMAIN new = DOMAIN old \cup {r}
       /\ \A q \in DOMAIN old : q # r => new[q] = old[q]
       /\ IF r \in DOMAIN old /\ keep \in DOMAIN old[r]
            THEN keep \in DOMAIN new[r] /\ new[r][keep] = old[r][keep]
            ELSE keep \notin DOMAIN new[r]
       /\ call'.op = "add_entrega" => new[r].arquivo = call'.arquivo
       /\ call'.op = "set_nota_entrega" => new[r].nota = call'.nota
       /\ <<alunos, turmas, _next_atv_id>>' = <<alunos, turmas, _next_atv_id>>
InRange(n) == n.t = "float" /\ 0 <= n.v /\ n.v <= 1000
C10_RejectsOutsideRange ==
  call.op = "set_nota_entrega" =>
    LET stored == call.atv_id \in DOMAIN atividades /\ call.ra \in DOMAIN alunos
    IN /\ (call.nota = None \/ ~InRange(call.nota)) =>
            /\ ret.err # ""
            /\ stored => ret.err \in InvalidValue
       /\ (call.nota \in {F(0), F(1000)} /\ stored) => ret.err = ""

(* C11: set_nota_entrega with a grade in [0,10] for a stored assignment and
   a stored student succeeds; when it succeeds for a student who had no
   submission record in the assignment, the record it creates for that ra has
   the single field "nota", holding the grade of the call (no "arquivo" field
   exists), and the assignment returned is the stored one. *)
C11_Step ==
  call'.op = "set_nota_entrega" =>
    /\ (/\ call'.atv_id \in DOMAIN atividades
        /\ call'.ra \in DOMAIN alunos
        /\ InRange(call'.nota)) => Succeeded'
    /\ (Succeeded' /\ call'.ra \notin DOMAIN atividades[call'.atv_id].entregas) =>
         /\ call'.ra \in DOMAIN atividades'[call'.atv_id].entregas
         /\ DOMAIN atividades'[call'.atv_id].entregas[call'.ra] = {"nota"}
         /\ atividades'[call'.atv_id].entregas[call'.ra].nota = call'.nota
         /\ ret'.val = atividades'[call'.atv_id]

C11_GradeOnlyRecord == [][call = Idle /\ call' # Idle => C11_Step]_vars

C11_Witness ==
  /\ call.op = "set_nota_entrega"
  /\ Succeeded
  /\ call.nota = F(1000)
  /\ DOMAIN atividades[call.atv_id].entregas[call.ra] = {"nota"}

(* C12: get_notas of a stored student returns the stored np1, np2 and pim,
   a media that is present exactly when the three are present, and then is
   the hundredth nearest to (np1*4 + np2*4 + pim*2)/10 (nan when a stored
   grade is nan); situacao is "Sem notas" exactly when media is absent,
   "Aprovado" exactly when media >= 7.0 and "Reprovado" otherwise; 8, 6, 10
   give 7.6 Aprovado, 5, 5, 5 give 5.0 Reprovado and 7, 7, 7 give 7.0
   Aprovado. For an unknown ra the result is None. *)
IsFloat(g) == g.t = "float"
C12_View(a, v) ==
  LET complete == a.np1 # None /\ a.np2 # None /\ a.pim # None
      numbers == IsFloat(a.np1) /\ IsFloat(a.np2) /\ IsFloat(a.pim)
      weighted == a.np1.v * 4 + a.np2.v * 4 + a.pim.v * 2
  IN /\ v.np1 = a.np1 /\ v.np2 = a.np2 /\ v.pim = a.pim
     /\ (v.media # None) <=> complete
     /\ (complete /\ numbers) =>
          /\ IsFloat(v.media)
          /\ 10 * v.media.v - weighted \in -5..5
     /\ (complete /\ ~numbers) => v.media = NaN
     /\ (v.situacao = "Sem notas") <=> (v.media = None)
     /\ (v.situacao = "Aprovado") <=> (IsFloat(v.media) /\ v.media.v >= 700)
     /\ v.situacao \in {"Sem notas", "Aprovado", "Reprovado"}
     /\ (a.np1 = F(800) /\ a.np2 = F(600) /\ a.pim = F(1000)) =>
          (v.media = F(760) /\ v.situacao = "Aprovado")
     /\ (a.np1 = F(500) /\ a.np2 = F(500) /\ a.pim = F(500)) =>
          (v.media = F(500) /\ v.situacao = "Reprovado")
     /\ (a.np1 = F(700) /\ a.np2 = F(700) /\ a.pim = F(700)) =>
          (v.media = F(700) /\ v.situacao = "Aprovado")

C12_DerivedGrades ==
  call.op = "get_notas" =>
    IF call.ra \in DOMAIN alunos
      THEN C12_View(alunos[call.ra], ret.val)
      ELSE ret.val = None

C12_Witness ==
  /\ call.op = "get_notas"
  /\ call.ra \in DOMAIN alunos
  /\ alunos[call.ra].np1 = F(699)
  /\ alunos[call.ra].np2 = F(700)
  /\ alunos[call.ra].pim = F(700)
  /\ ret.val.media = F(700)
  /\ ret.val.situacao = "Aprovado"

(* C13: set_notas fails with a not-found error for an unknown ra; for a
   stored student it rejects with an invalid-value error, changing nothing,
   every call in which a provided np1, np2 or pim is not a number of [0,10];
   otherwise it succeeds, sets the provided fields, leaves the omitted ones
   at their previous value and returns the view derived from the updated
   student. *)
Provided(g) == g # None
C13_Step ==
  call'.op = "set_notas" =>
    LET ra == call'.ra
        given == <<call'.np1, call'.np2, call'.pim>>
        bad == \E k \in 1..3 : Provided(given[k]) /\ ~InRange(given[k])
    IN IF ra \notin DOMAIN alunos
         THEN ret'.err \in NotFound /\ UNCHANGED <<mem, disk>>
       ELSE IF bad
         THEN ret'.err \in InvalidValue /\ UNCHANGED <<mem, disk>>
       ELSE /\ Succeeded'
            /\ alunos'[ra].np1 = (IF Provided(given[1]) THEN given[1] ELSE alunos[ra].np1)
            /\ alunos'[ra].np2 = (IF Provided(given[2]) THEN given[2] ELSE alunos[ra].np2)
            /\ alunos'[ra].pim = (IF Provided(given[3]) THEN given[3] ELSE alunos[ra].pim)
            /\ C12_View(alunos'[ra], ret'.val)

C13_SetGradesChecked == [][call = Idle /\ call' # Idle => C13_Step]_vars

(* C14: in every state reached from the empty store, np1, np2 and pim of
   every student are None or a number of [0,10], and the "nota" of every
   submission record that has one is a number of [0,10]. *)
C14_GradesInRange ==
  /\ \A ra \in DOMAIN alunos :
       \A g \in {alunos[ra].np1, alunos[ra].np2, alunos[ra].pim} :
         g = None \/ InRange(g)
  /\ \A i \in DOMAIN atividades :
       \A ra \in DOMAIN atividades[i].entregas :
         "nota" \in DOMAIN atividades[i].entregas[ra] =>
           InRange(atividades[i].entregas[ra].nota)

(* C15: pendencias_entrega fails with a not-found error when the class is
   not stored; otherwise its result has one entry for each assignment whose
   turma_codigo is the class code and no other entry, and the entry of an
   assignment lists, once each and in the order of the membership list, the
   members that are not a key of the assignment's entregas (members [A, B]
   and a record only for A give [B]). *)
PositionIn(seq, x) == CHOOSE k \in 1..Len(seq) : seq[k] = x
\* list holds exactly the members of wanted, once each, in the order of seq
ListsInOrder(list, seq, wanted) ==
  /\ {list[k] : k \in 1..Len(list)} = wanted
  /\ \A p, q \in 1..Len(list) :
       p < q => PositionIn(seq, list[p]) < PositionIn(seq, list[q])

HasValidNota(atv, ra) ==
  /\ ra \in DOMAIN atv.entregas
  /\ "nota" \in DOMAIN atv.entregas[ra]
  /\ InRange(atv.entregas[ra].nota)

C16_MissingGrades ==
  call.op = "pendencias_nota" =>
    IF call.codigo \notin DOMAIN turmas
      THEN ret.err \in NotFound
      ELSE LET members == turmas[call.codigo].alunos
           IN /\ Succeeded
              /\ DOMAIN ret.val =
                   {i \in DOMAIN atividades : atividades[i].turma_codigo = call.codigo}
              /\ \A i \in DOMAIN ret.val :
                   ListsInOrder(ret.val[i], members,
                     {ra \in {members[k] : k \in 1..Len(members)} :
                        ~HasValidNota(atividades[i], ra)})

(* C17: relatorio_turma answers 404 with the not-found message when the class
   is not stored; otherwise it reports one item per assignment of the class,
   whose total_entregas is the number of submission records and whose
   percentual_entregas is the hundredth nearest to count / members * 100, or
   0.0 when the class has no member; media_entregas_por_atividade is 0.0
   when the class has no assignment, and otherwise the hundredth nearest to
   the mean of the counts. Values are in hundredths. *)
\* 2 * |x * d - n| <= d : x is a hundredth nearest to n / d
NearestTo(x, n, d) == 2 * x * d - 2 * n \in (0 - d)..d

C17_Overview ==
  call.op = "relatorio_turma" =>
    IF call.codigo \notin DOMAIN turmas
      THEN ret.status = 404 /\ ret.err \in NotFound
      ELSE LET turma == turmas[call.codigo]
               members == Len(turma.alunos)
               ids == {i \in DOMAIN atividades : atividades[i].turma_codigo = call.codigo}
               items == ret.val.atividades
               count(i) == Cardinality(DOMAIN atividades[i].entregas)
           IN /\ ret.status = 200
              /\ ret.val.total_alunos = members
              /\ ret.val.total_atividades = Cardinality(ids)
              /\ {items[k].id : k \in DOMAIN items} = ids
              /\ Len(items) = Cardinality(ids)
              /\ \A k \in DOMAIN items :
                   /\ items[k].total_entregas = count(items[k].id)
                   /\ IF members = 0
                        THEN items[k].percentual_entregas = 0
                        ELSE NearestTo(items[k].percentual_entregas,
                                       count(items[k].id) * 10000, members)
              /\ IF ids = {}
                   THEN ret.val.media_entregas_por_atividade = 0
                   ELSE NearestTo(ret.val.media_entregas_por_atividade,
                                  SumOver([i \in ids |-> count(i)], ids) * 100,
                                  Cardinality(ids))

\* three members, one record: 33.33 percent
C17_Witness ==
  /\ call.op = "relatorio_turma"
  /\ call.codigo = "T1"
  /\ ret.status = 200
  /\ ret.val.total_alunos = 3
  /\ ret.val.total_atividades = 2
  /\ ret.val.atividades[1].total_entregas = 1
  /\ ret.val.atividades[1].percentual_entregas = 3333
  /\ ret.val.media_entregas_por_atividade = 50

\* no member, records present: 0.0 percent
C17_WitnessNoMember ==
  /\ call.op = "relatorio_turma"
  /\ ret.status = 200
  /\ ret.val.total_alunos = 0
  /\ Len(ret.val.atividades) > 0
  /\ ret.val.atividades[1].total_entregas = 2
  /\ ret.val.atividades[1].percentual_entregas = 0

(* C18: distribuicao_notas answers 404 with the not-found message when the
   assignment is not stored and reports "Sem notas registradas." when no
   submission record carries a number of [0,10]; otherwise it returns the
   eleven buckets 0..10, every valid grade is counted once in the bucket of
   an integer nearest to it (a grade halfway between two integers in one of
   the two), and the counts add up to the number of records with a valid
   grade; 7.4 is counted in 7, 7.6 in 8 and 10.0 in 10. *)
C18_Distribution ==
  call.op = "distribuicao_notas" =>
    IF call.atividade_id \notin DOMAIN atividades
      THEN ret.status = 404 /\ ret.err \in NotFound
      ELSE LET atv == atividades[call.atividade_id]
               valid == {ra \in DOMAIN atv.entregas : HasValidNota(atv, ra)}
               grade(ra) == atv.entregas[ra].nota.v
               within(k, half) == {ra \in valid : 100 * k - grade(ra) \in (0 - half)..half}
           IN /\ ret.status = 200
              /\ IF valid = {}
                   THEN /\ DOMAIN ret.val = {"atividade_id", "mensagem"}
                        /\ ret.val.mensagem = ErrSemNotas
                   ELSE LET d == ret.val.distribuicao
                        IN /\ DOMAIN d = 0..10
                           /\ \A k \in 0..10 :
                                /\ Cardinality(within(k, 49)) <= d[k]
                                /\ d[k] <= Cardinality(within(k, 50))
                           /\ SumOver(d, 0..10) = Cardinality(valid)
                           /\ (\E ra \in valid : grade(ra) = 740) => d[7] >= 1
                           /\ (\E ra \in valid : grade(ra) = 760) => d[8] >= 1
                           /\ (\E ra \in valid : grade(ra) = 1000) => d[10] >= 1

C18_Witness ==
  /\ call.op = "distribuicao_notas"
  /\ call.atividade_id = 1
  /\ ret.status = 200
  /\ {atividades[1].entregas[ra] : ra \in DOMAIN atividades[1].entregas}
       = {OnlyNota(F(740)), OnlyNota(F(760)), OnlyNota(F(1000))}
  /\ ret.val.distribuicao =
       [k \in 0..10 |-> IF k \in {7, 8, 10} THEN 1 ELSE 0]

(* C19: a call of get_aluno, list_alunos, get_turma, get_atividade,
   get_notas, atividades_da_turma, pendencias_entrega, pendencias_nota,
   relatorio_turma, media_notas, distribuicao_notas or total_alunos leaves
   alunos, turmas, atividades and _next_atv_id as they were and does not
   write data/db.json, whether it returns or fails. *)
QueryOps == {"get_aluno", "list_alunos", "get_turma", "get_atividade", "get_notas",
             "atividades_da_turma", "pendencias_entrega", "pendencias_nota",
             "relatorio_turma", "media_notas", "distribuicao_notas", "total_alunos"}

C19_Step == call'.op \in QueryOps => UNCHANGED <<mem, disk>>

C19_QueriesReadOnly == [][call = Idle /\ call' # Idle => C19_Step]_vars

\* a failing query on a store with a student and a snapshot
C19_Witness ==
  /\ call.op \in {"pendencias_entrega", "pendencias_nota", "relatorio_turma"}
  /\ ~Succeeded
  /\ DOMAIN alunos # {}
  /\ disk.exists

(* C20: every route that changes the store answers a store error of the
   not-found kind (unknown student, class or assignment) with 404 and an
   error of the duplicate-key or invalid-value kind with 400. *)
MutatingRoutes == {"criar_turma", "adicionar_aluno_na_turma", "criar_atividade",
                   "entregar_atividade", "lancar_notas"}

C20_UniformStatus ==
  call.op \in MutatingRoutes =>
    /\ ret.err \in NotFound => ret.status = 404
    /\ ret.err \in DuplicateKey \cup InvalidValue => ret.status = 400
    /\ ret.err = "" => ret.status = 200

(* C21: across every step, every student, class and assignment stored
   before the step is stored after it; every member of a class is still a
   member; every submission record is still there with the fields it had; a
   student's nome, ra and curso, a class's codigo and nome, and an
   assignment's id, turma_codigo, titulo and data_entrega are unchanged. *)
Members(t) == {t.alunos[k] : k \in 1..Len(t.alunos)}
C21_Step ==
  /\ \A ra \in DOMAIN alunos :
       /\ ra \in DOMAIN alunos'
       /\ alunos'[ra].nome = alunos[ra].nome
       /\ alunos'[ra].ra = alunos[ra].ra
       /\ alunos'[ra].curso = alunos[ra].curso
  /\ \A c \in DOMAIN turmas :
       /\ c \in DOMAIN turmas'
       /\ turmas'[c].codigo = turmas[c].codigo
       /\ turmas'[c].nome = turmas[c].nome
       /\ Members(turmas[c]) \subseteq Members(turmas'[c])
  /\ \A i \in DOMAIN atividades :
       /\ i \in DOMAIN atividades'
       /\ atividades'[i].id = atividades[i].id
       /\ atividades'[i].turma_codigo = atividades[i].turma_codigo
       /\ atividades'[i].titulo = atividades[i].titulo
       /\ atividades'[i].data_entrega = atividades[i].data_entrega
       /\ \A ra \in DOMAIN atividades[i].entregas :
            /\ ra \in DOMAIN atividades'[i].entregas
            /\ DOMAIN atividades[i].entregas[ra]
                 \subseteq DOMAIN atividades'[i].entregas[ra]

C21_OnlyGrows == [][C21_Step]_vars

\* a duplicate add_turma with another name was refused for a class that has
\* a member
C21_Witness ==
  /\ call.op = "add_turma"
  /\ ret.err = ErrTurmaCadastrada
  /\ turmas[call.codigo].nome # call.nome
  /\ turmas[call.codigo].alunos # <<>>

(* C22: when set_notas is called for a stored student with a provided np1,
   np2 or pim that is not a number of [0,10], np1, np2 and pim of the student
   keep their values, also for the provided fields that are valid, and
   data/db.json is not rewritten. *)
C22_Step ==
  (/\ call'.op \in CallsSetNotas
   /\ call'.ra \in DOMAIN alunos
   /\ \E g \in {call'.np1, call'.np2, call'.pim} : Provided(g) /\ ~InRange(g))
  => /\ alunos'[call'.ra].np1 = alunos[call'.ra].np1
     /\ alunos'[call'.ra].np2 = alunos[call'.ra].np2
     /\ alunos'[call'.ra].pim = alunos[call'.ra].pim
     /\ disk' = disk

C22_AllOrNothing == [][call = Idle /\ call' # Idle => C22_Step]_vars

(* C29: for every stored class and every assignment of it, every ra listed
   by pendencias_entrega for the assignment is listed by pendencias_nota for
   it, and both lists hold only members of the class. *)
Elems(list) == {list[k] : k \in 1..Len(list)}
C29_MissingNested ==
  \A c \in DOMAIN turmas :
    /\ pendencias_entrega(c).err = ""
    /\ pendencias_nota(c).err = ""
    /\ DOMAIN pendencias_entrega(c).val = DOMAIN pendencias_nota(c).val
    /\ \A i \in DOMAIN pendencias_entrega(c).val :
         /\ Elems(pendencias_entrega(c).val[i]) \subseteq Elems(pendencias_nota(c).val[i])
         /\ Elems(pendencias_nota(c).val[i]) \subseteq Elems(turmas[c].alunos)

\* A has a record with a file and no grade, B has no record: B is in both
\* lists, A only in the list of missing grades
C29_Witness ==
  /\ call.op = "pendencias_nota"
  /\ call.codigo = "T1"
  /\ Succeeded
  /\ 1 \in AtvIdsOf("T1")
  /\ ret.val[1] = <<"A", "B">>
  /\ pendencias_entrega("T1").val[1] = <<"B">>

(* C30: in every reachable state the submission percentage that relatorio_turma
   reports for an assignment lies in [0, 100] and the reported submission count
   of an assignment never exceeds the reported student count of its class.
   Percentages are in hundredths of a percent. *)
C30_Bounded ==
  (call.op = "relatorio_turma" /\ ret.status = 200) =>
    \A k \in DOMAIN ret.val.atividades :
      /\ ret.val.atividades[k].percentual_entregas \in 0..10000
      /\ ret.val.atividades[k].total_entregas <= ret.val.total_alunos

\* As the code has it: add_entrega takes any stored student, member of the
\* class or not, so the count is bounded by the stored students, and by the
\* members only for an assignment whose submissions all come from members.
FromMembers(id, codigo) ==
  DOMAIN atividades[id].entregas \subseteq Members(turmas[codigo])

C30_BoundedForMembers ==
  (call.op = "relatorio_turma" /\ ret.status = 200) =>
    \A k \in DOMAIN ret.val.atividades :
      LET item == ret.val.atividades[k]
      IN /\ item.percentual_entregas >= 0
         /\ item.total_entregas <= Cardinality(DOMAIN alunos)
         /\ FromMembers(item.id, call.codigo) =>
              /\ item.total_entregas <= ret.val.total_alunos
              /\ item.percentual_entregas <= 10000

C30_Witness ==
  /\ call.op = "relatorio_turma"
  /\ ret.status = 200
  /\ ret.val.total_alunos = 3
  /\ \E k \in DOMAIN ret.val.atividades :
       /\ FromMembers(ret.val.atividades[k].id, call.codigo)
       /\ ret.val.atividades[k].total_entregas = 1
       /\ ret.val.atividades[k].percentual_entregas = 3333

C30_WitnessOutsider ==
  /\ call.op = "relatorio_turma"
  /\ ret.status = 200
  /\ \E k \in DOMAIN ret.val.atividades :
       /\ ~FromMembers(ret.val.atividades[k].id, call.codigo)
       /\ ret.val.atividades[k].total_entregas > ret.val.total_alunos

(* C27: POST /atividades/{atividade_id}/nota with an existing assignment id, an
   existing student ra and a nota in [0, 10] sets that student's grade on the
   assignment's submission, persists the snapshot and returns the updated
   assignment; invalid input is answered with 400. *)
C27_Step ==
  call'.op = "registrar_nota" =>
    IF /\ call'.atividade_id \in DOMAIN atividades
       /\ call'.ra \in DOMAIN alunos
       /\ InRange(call'.nota)
      THEN /\ ret'.status = 200
           /\ call'.ra \in DOMAIN atividades'[call'.atividade_id].entregas
           /\ atividades'[call'.atividade_id].entregas[call'.ra].nota = call'.nota
           /\ disk' = _save(alunos', turmas', atividades', _next_atv_id')
           /\ ret'.val = atividades'[call'.atividade_id]
      ELSE /\ ret'.status = 400
           /\ UNCHANGED <<mem, disk>>

C27_GradeRecorded == [][(call = Idle /\ call' # Idle) => C27_Step]_vars

\* what the route does instead: no request reaches the store
C27_NeverStored ==
  [][(call = Idle /\ call' # Idle /\ call'.op = "registrar_nota") =>
       /\ ret'.status \in {422, 500}
       /\ UNCHANGED <<mem, disk>>]_vars

C27_Reached ==
  /\ call.op = "registrar_nota"
  /\ call.atividade_id \in DOMAIN atividades
  /\ call.ra \in DOMAIN alunos
  /\ InRange(call.nota)
  /\ ret.status = 500

(* C23: assignment ids stay unique when requests are dispatched concurrently:
   when add_atividade calls whose steps interleave have all returned, they
   have received different ids, each assignment is present in the store, and
   the counter is higher than it started by the number of calls. *)
Created == {t \in DOMAIN threads : threads[t].pc = "done" /\ threads[t].status = 200}
Quiescent == \A t \in DOMAIN threads : threads[t].pc \in {"waiting", "done"}
\* the ids the store held before the requests: they are below every id a
\* request is given
IdsBefore == DOMAIN atividades \ {threads[t].id : t \in DOMAIN threads}

C23_UniqueIds ==
  Quiescent =>
    /\ \A t, u \in Created : t # u => threads[t].id # threads[u].id
    /\ \A t \in Created :
         /\ threads[t].id \in DOMAIN atividades
         /\ atividades[threads[t].id].id = threads[t].id
         /\ atividades[threads[t].id].turma_codigo = threads[t].turma_codigo
    /\ _next_atv_id = Cardinality(IdsBefore) + 1 + Cardinality(Created)

\* two requests have returned with the same id
C23_Collision ==
  /\ Quiescent
  /\ \E t, u \in Created : t # u /\ threads[t].id = threads[u].id

\* a request that runs alone, from start to end, keeps the claim
C23_Alone ==
  (Cardinality(Created) = 1 /\ \A t \in DOMAIN threads \ Created : threads[t].pc = "waiting") =>
     C23_UniqueIds

(* C24: if the snapshot write fails during a mutating operation, the failure
   reaches the caller as an error distinct from the domain errors, and memory
   and file do not diverge: after the failed call the in-memory state still
   equals the last successfully written snapshot. *)
WriteFailed == ret'.err = ErrOS
\* memory is what the file holds (what a start without a file builds, when
\* there is none)
InSync ==
  \/ disk = _save(alunos, turmas, atividades, _next_atv_id)
  \/ disk = NoFile /\ mem = <<_load(NoFile).alunos, _load(NoFile).turmas,
                               _load(NoFile).atividades, _load(NoFile).next_id>>

C24_Step ==
  (InSync /\ WriteFailed) =>
    /\ ret'.err \notin NotFound \cup DuplicateKey \cup InvalidValue
    /\ mem' = mem

C24_NoDivergence == [][(call = Idle /\ call' # Idle) => C24_Step]_vars

\* the half of the claim the code keeps: the error is no domain error
C24_Propagates ==
  [][(call = Idle /\ call' # Idle /\ WriteFailed) =>
       ret'.err \notin NotFound \cup DuplicateKey \cup InvalidValue]_vars

\* a failed add_aluno has returned: the student is in memory and in no file
C24_Diverged ==
  /\ call.op = "add_aluno"
  /\ ret.err = ErrOS
  /\ call.ra \in DOMAIN alunos
  /\ disk = NoFile

(* C26: logout invalidates the token: after POST /auth/logout with a token
   issued by login, every later request presenting that token is rejected with
   401 by require_auth, since a token that has left the session table is never
   put back (login issues a fresh one); logout with an absent, malformed or
   unknown token succeeds without error and removes no other session. *)
Issued == 1..issued
\* the sessions other than the one of the well-formed header
OtherSessions(sessions) ==
  IF WellFormed(bearer) THEN Drop(sessions, {bearer.token}) ELSE sessions

C26_Step ==
  /\ call'.op = "logout" =>
       /\ ret'.status = 200
       /\ ret'.err = ""
       /\ WellFormed(bearer) => bearer.token \notin DOMAIN SESSIONS'
       /\ OtherSessions(SESSIONS') = OtherSessions(SESSIONS)
       /\ (~WellFormed(bearer) \/ bearer.token \notin DOMAIN SESSIONS) => SESSIONS' = SESSIONS
  /\ \A t \in Issued : t \notin DOMAIN SESSIONS => t \notin DOMAIN SESSIONS'
  /\ (call'.op = "me" /\ bearer.token \notin DOMAIN SESSIONS) =>
       /\ ret'.status = 401
       /\ require_auth(bearer).status = 401

C26_LogoutInvalidates == [][(call = Idle /\ call' # Idle) => C26_Step]_vars

\* a token issued in this hour, logged out, and presented again
C26_Witness ==
  /\ call.op = "me"
  /\ ret.status = 401
  /\ now = 0
  /\ WellFormed(bearer)
  /\ bearer.token \in Issued
  /\ bearer.token \notin DOMAIN SESSIONS
  /\ SESSIONS # << >>

\* logout with no header while a session is open
C26_WitnessNoHeader ==
  /\ call.op = "logout"
  /\ ret.status = 200
  /\ bearer = NoHeader
  /\ SESSIONS # << >>

(* C28: POST /atividades/ validates the owning class: a request whose
   turma_codigo is no existing class is answered with 404, stores no
   assignment and does not advance the id counter; hence, when assignments are
   created only through this route, every stored assignment's class code
   refers to an existing class in every reachable state. *)
C28_Step ==
  (call'.op = "criar_atividade" /\ require_professor(bearer).status = 0) =>
    IF call'.turma_codigo \notin DOMAIN turmas
      THEN /\ ret'.status = 404
           /\ ret'.err \in NotFound
           /\ atividades' = atividades
           /\ _next_atv_id' = _next_atv_id
           /\ UNCHANGED <<alunos, turmas, disk>>
      ELSE /\ ret'.status = 200
           /\ DOMAIN atividades' = DOMAIN atividades \cup {_next_atv_id}
           /\ atividades'[_next_atv_id].turma_codigo = call'.turma_codigo
           /\ _next_atv_id' = _next_atv_id + 1

C28_Owned ==
  \A i \in DOMAIN atividades : atividades[i].turma_codigo \in DOMAIN turmas

C28_ClassChecked ==
  /\ []C28_Owned
  /\ [][(call = Idle /\ call' # Idle) => C28_Step]_vars

\* an unknown class refused while an assignment of an existing class is stored
C28_Witness ==
  /\ call.op = "criar_atividade"
  /\ ret.status = 404
  /\ call.turma_codigo \notin DOMAIN turmas
  /\ turmas # << >>
  /\ atividades # << >>
  /\ _next_atv_id = Cardinality(DOMAIN atividades) + 1

(* C25: every store mutation reachable through the HTTP routes (create student,
   create class, add student to class, create assignment, record submission,
   set submission grade, set student grades) happens only for a request
   bearing a token that is in the session table, is not expired and has role
   professor; a request with no token or an unknown token is rejected with
   401 and a request with an aluno session with 403, in both cases leaving
   the store unchanged. *)
SecuredMutations ==
  {"criar_aluno", "criar_turma", "adicionar_aluno_na_turma", "criar_atividade",
   "entregar_atividade", "registrar_nota", "lancar_notas"}
ValidSession(h) ==
  /\ WellFormed(h)
  /\ h.token \in DOMAIN SESSIONS
  /\ ~(SESSIONS[h.token].exp < now)
RoleOf(h) == SESSIONS[h.token].role
NoOrUnknownToken(h) == h = NoHeader \/ (WellFormed(h) /\ h.token \notin DOMAIN SESSIONS)
StoreChanged == mem' # mem \/ disk' # disk

C25_StepOf(routes) ==
  call'.op \in routes =>
    /\ StoreChanged => (ValidSession(bearer) /\ RoleOf(bearer) = "professor")
    /\ NoOrUnknownToken(bearer) => (ret'.status = 401 /\ ~StoreChanged)
    /\ (ValidSession(bearer) /\ RoleOf(bearer) = "aluno") => (ret'.status = 403 /\ ~StoreChanged)

C25_ProfessorOnly ==
  [][(call = Idle /\ call' # Idle) => C25_StepOf(SecuredMutations)]_vars

\* the same for the routes the application serves
C25_ServedRoutes ==
  [][(call = Idle /\ call' # Idle) => C25_StepOf(SecuredMutations \ {"criar_aluno"})]_vars

\* no step at all changes the store without a valid professor session
C25_NoOtherMutation ==
  [][StoreChanged => (ValidSession(bearer) /\ RoleOf(bearer) = "professor")]_vars

\* POST /alunos/ without a header: answered 404, not 401
C25_Unserved ==
  /\ call.op = "criar_aluno"
  /\ bearer = NoHeader
  /\ ret.status = 404

\* a mutation admitted for the professor, and one refused for the student
C25_Admitted ==
  /\ call.op = "lancar_notas"
  /\ ret.status = 200
  /\ ValidSession(bearer)
  /\ RoleOf(bearer) = "professor"
  /\ alunos["A"].np1 = F(1000)
C25_Refused ==
  /\ call.op = "entregar_atividade"
  /\ ret.status = 403
  /\ ValidSession(bearer)
  /\ RoleOf(bearer) = "aluno"
  /\ call.atividade_id \in DOMAIN atividades
  /\ call.ra \in DOMAIN alunos

====
